---- MODULE Spec2Model ----
(***************************************************************************)
(* Execution orchestrator of claude_do_trade: ExecManager (exec_manager.py) *)
(* driving BybitTrader (bybit_trader.py) and ExecDBManager                  *)
(* (exec_db_manager.py).  Requests are served by a threaded HTTP server     *)
(* (exec_server.py, app.run(threaded=True)), so the handlers of several     *)
(* requests interleave at every exchange call and every database write.     *)
(***************************************************************************)
EXTENDS Integers, Sequences, FiniteSets, TLC

\* ---------------------------------------------------------------- bounds
MaxRequests == 2
MaxExchangeCloses == 1
MaxFaults == 1
MaxClosedTrades == 2
MaxQty == 3
MaxPrice == 2
MaxBalance == 2
MaxWriters == 2

\* ------------------------------------------------------------- constants
NoOrderId == 0
NoPnl == 0
NoMax == 0

TRADE_STATUS_OPEN == "OPEN"
TRADE_STATUS_FILLED == "FILLED"
TRADE_STATUS_CLOSED == "CLOSED"

SupportedSymbols == {"BTCUSDT", "ETHUSDT"}
AllSymbols == SupportedSymbols \cup {"XRPUSDT"}
Sides == {"long", "short"}
\* The ingress checks that an open_position request has a position_type,
\* not what it is: "LONG" and "hold" stand for the other strings.
PositionTypes == Sides \cup {"LONG", "hold"}
Actions == {"open_position", "close_position", "trend_touch", "cancel_orders"}
\* ai_decision as the handler reads it: "yes" is an Answer that lower-cases
\* to "yes"; "no" is any other string or no Answer key; "null" is an Answer
\* of null or an ai_decision that is not an object (.lower() or .get raises).
Answers == {"yes", "no", "null"}
TerminalStatus == {"SUCCESS", "FAILED", "SKIPPED", "PARTIAL"}
DbOutcomes == {"ok", "fail", "raise"}
QueryOutcomes == {"ok", "fail"}
CloseOutcomes == {"ok", "ok_noid", "rejected", "raise", "cancel_raise"}
PlaceOutcomes == {"price_raise", "rejected", "accepted", "accepted_noid"}
TpSlOutcomes == {"ok", "fail", "raise"}

Reqs == 1..MaxRequests
\* request_data.get("eventId", str(uuid.uuid4())): an id no earlier request
\* carried (generated, or supplied by the caller for the first time), or
\* the id of an earlier request supplied again.
FreshEventId(r) == "ev-" \o ToString(r)
EventIds == {FreshEventId(r) : r \in Reqs}
TradeIdOf(r, k) == 2 * (r - 1) + k

\* The request bodies the ingress layer lets through (exec_server.py 77-112):
\* action and symbol present, position_type present for open_position,
\* ai_decision present for trend_touch.
RequestData ==
    {[action |-> a, symbol |-> s, position_type |-> p, answer |-> w] :
        a \in Actions, s \in AllSymbols,
        p \in PositionTypes \cup {"NULL"}, w \in Answers \cup {"NULL"}}

ValidRequest(d) ==
    /\ (d.action = "open_position") <=> (d.position_type # "NULL")
    /\ (d.action = "trend_touch") <=> (d.answer # "NULL")

VARIABLES reqs, events, trades, position, orders, timers,
          everSelected, faults, lastRun, calc, conn, positionTypes

vars == <<reqs, events, trades, position, orders, timers,
          everSelected, faults, lastRun, calc, conn, positionTypes>>

IdleRequest ==
    [pc |-> "idle", action |-> "NULL", symbol |-> "NULL",
     position_type |-> "NULL", answer |-> "NULL", eventId |-> "NULL",
     insert |-> "none", cur |-> "unread", closeRes |-> "none",
     closeOrderId |-> NoOrderId, openRes |-> "none",
     openOrderId |-> NoOrderId, status |-> "NONE", resp |-> "none",
     calls |-> <<>>, updates |-> 0, updFailed |-> FALSE,
     exc |-> FALSE, dbFailed |-> FALSE]

AbsentEvent ==
    [execStatus |-> "ABSENT", errorMessage |-> "NULL",
     executionTime |-> FALSE, executionDuration |-> FALSE]

\* The call of a function of utils.py in progress: its name, its arguments
\* and, once it has ended, how it ended and what it returned.  Amounts are
\* whole numbers (quantities in lots, the pnl in tenths).
NoCalc ==
    [fn |-> "NULL", pc |-> "idle", balance |-> 0, percent |-> 0,
     leverage |-> 0, price |-> 0, min_qty |-> 0, step_size |-> 0,
     max_qty |-> NoMax, entry_price |-> 0, exit_price |-> 0,
     position_type |-> "NULL", size |-> 0, out |-> 0]

\* The one pymysql connection of ExecDBManager as the threads of the server
\* use it (no lock, autocommit off): the statements executed and not yet
\* committed, the statements committed, and for each thread in a logical
\* write its kind, its position and the result it reports.
Writers == 1..MaxWriters
IdleConn ==
    [pending |-> {}, durable |-> {},
     kind |-> [h \in Writers |-> "NULL"],
     pc |-> [h \in Writers |-> "idle"],
     result |-> [h \in Writers |-> "none"]]

\* Ghost: what the exchange and the database answered in the most recent
\* run of _update_trade_pnl that got past the empty selection (line 344):
\* the job, each symbol's fetch outcome, the records reported and the
\* number of UPDATEs applied before one raised.  tick tells one run from
\* the next (0: no run yet).
NoRun ==
    [tick |-> 0,
     job |-> [tradeId |-> 0, symbol |-> "NULL", orderId |-> NoOrderId],
     fetch |-> [s \in SupportedSymbols |-> "ok"], avail |-> {}, n |-> 0]

Init ==
    /\ reqs = [r \in Reqs |-> IdleRequest]
    /\ events = [e \in EventIds |-> AbsentEvent]
    /\ trades = <<>>
    /\ position = [s \in SupportedSymbols |-> "none"]
    /\ orders = <<>>
    /\ timers = {}
    /\ everSelected = {}
    /\ faults = 0
    /\ lastRun = NoRun
    /\ calc = NoCalc
    /\ conn = IdleConn
    /\ positionTypes = Sides

\* The service whose clients send any position_type string, and whose
\* collaborators do not fail (the budget of failures is spent).
InitAnyType ==
    /\ reqs = [r \in Reqs |-> IdleRequest]
    /\ events = [e \in EventIds |-> AbsentEvent]
    /\ trades = <<>>
    /\ position = [s \in SupportedSymbols |-> "none"]
    /\ orders = <<>>
    /\ timers = {}
    /\ everSelected = {}
    /\ faults = MaxFaults
    /\ lastRun = NoRun
    /\ calc = NoCalc
    /\ conn = IdleConn
    /\ positionTypes = PositionTypes

\* ------------------------------------------------------- small helpers
\* The failures of the collaborators (database errors, failed or rejected
\* exchange calls) injected so far; Inject(n) injects n more.
Inject(n) == faults + n <= MaxFaults /\ faults' = faults + n
Bad(o) == IF o \in {"ok", "accepted"} THEN 0 ELSE 1
SetReq(r, rec) == reqs' = [reqs EXCEPT ![r] = rec]
Call(rec, names) == [rec EXCEPT !.calls = @ \o names]
Has(seq, x) == \E i \in 1..Len(seq) : seq[i] = x
\* The handler returns: its locals are gone, the response and the history
\* of its event row writes remain.
Returned(rec, resp) ==
    [IdleRequest EXCEPT !.pc = "done", !.resp = resp, !.status = rec.status,
                        !.eventId = rec.eventId, !.insert = rec.insert,
                        !.updates = rec.updates,
                        !.updFailed = rec.updFailed, !.exc = rec.exc]

\* Mutant: a SKIPPED result returns without the event update.
Finish_SkippedReturnsEarly(rec, status) ==
    IF status = "SKIPPED"
    THEN Returned([rec EXCEPT !.status = status], "success")
    ELSE [rec EXCEPT !.status = status, !.pc = "update"]

\* Lines 97-102: the handler's result reaches the event update at 106-119.
Finish(rec, status) == [rec EXCEPT !.status = status, !.pc = "update"]
SideOf(positionType) == IF positionType = "long" THEN "Sell" ELSE "Buy"
OpenSideOf(positionType) == IF positionType = "long" THEN "Buy" ELSE "Sell"

\* Mutant: a failed query is reported as such instead of as None.
get_current_position_ReportsError(s, q) ==
    IF q = "ok" THEN position[s] ELSE "error"

\* BybitTrader.get_current_position: the live position, or None both when the
\* symbol is flat and when the query itself failed.
get_current_position(s, q) == IF q = "ok" THEN position[s] ELSE "none"

\* ------------------------------------------------ persistence gateway
\* The columns of execution_events the orchestrator writes again later;
\* eventType, symbol, positionType, rawRequest and requestIp are written
\* once and never read.
NewEventRow ==
    [execStatus |-> "PENDING", errorMessage |-> "NULL",
     executionTime |-> FALSE, executionDuration |-> FALSE]

\* ExecDBManager.log_execution_event: INSERT; a duplicate primary key, like
\* any other database error, is caught, rolled back and reported as False.
InsertResult(ev, id, o) ==
    IF o = "ok" /\ ev[id].execStatus # "ABSENT" THEN "fail" ELSE o

\* Mutant: the INSERT is never committed.
log_execution_event_NoCommit(ev, id, o) == ev

log_execution_event(ev, id, o) ==
    IF InsertResult(ev, id, o) = "ok" THEN [ev EXCEPT ![id] = NewEventRow]
    ELSE ev

\* ExecDBManager.update_execution_event: UPDATE ... WHERE eventId = id.
RowExists(ev, id) == ev[id].execStatus # "ABSENT"

\* Mutant: the errorMessage column is left out of the UPDATE.
update_execution_event_NoMessage(ev, id, status, withError, withDuration, o) ==
    IF o = "ok" /\ RowExists(ev, id)
    THEN [ev EXCEPT ![id] =
            [@ EXCEPT !.execStatus = status, !.executionTime = TRUE,
                      !.executionDuration = IF withDuration THEN TRUE ELSE @]]
    ELSE ev

update_execution_event(ev, id, status, withError, withDuration, o) ==
    IF o = "ok" /\ RowExists(ev, id)
    THEN [ev EXCEPT ![id] =
            [@ EXCEPT !.execStatus = status,
                      !.executionTime = TRUE,
                      !.executionDuration = IF withDuration THEN TRUE ELSE @,
                      !.errorMessage = IF withError THEN "set" ELSE @]]
    ELSE ev

Applied(ev, id, o) == IF o = "ok" /\ RowExists(ev, id) THEN 1 ELSE 0

\* ----------------------------------------------------- request arrival
\* Lines 91-104: an unsupported symbol, then an unsupported action, go to
\* _handle_error inside the try block; the rest goes to its handler.
Dispatch(d) ==
    IF d.symbol \notin SupportedSymbols THEN "error_try"
    ELSE IF d.action \in {"open_position", "close_position", "trend_touch"}
    THEN "route"
    ELSE "error_try"

\* The supported symbols are interchangeable: a request names the second
\* one only in a state that already holds a trace of the first.
SymbolAllowed(s) ==
    s = "ETHUSDT" =>
        \/ \E q \in Reqs : reqs[q].symbol = "BTCUSDT"
        \/ position["BTCUSDT"] # "none"
        \/ orders # <<>>
        \/ trades # <<>>

\* ExecManager.handle_execution_request, lines 69-87: the event row is
\* inserted before the try block, so a raising insert leaves the handler.
handle_execution_request(r) ==
    /\ reqs[r].pc = "idle"
    /\ \A q \in Reqs : q < r => reqs[q].pc # "idle"
    /\ \E d \in RequestData, id \in {FreshEventId(q) : q \in 1..r},
          o \in DbOutcomes :
        /\ ValidRequest(d)
        /\ d.position_type \in positionTypes \cup {"NULL"}
        /\ SymbolAllowed(d.symbol)
        /\ Inject(Bad(o))
        /\ events' = log_execution_event(events, id, o)
        /\ SetReq(r, IF o = "raise"
                     THEN Returned([reqs[r] EXCEPT !.insert = "raise"],
                                   "raised")
                     ELSE [reqs[r] EXCEPT
                             !.action = d.action, !.symbol = d.symbol,
                             !.position_type = d.position_type,
                             !.answer = d.answer, !.eventId = id,
                             !.insert = InsertResult(events, id, o),
                             !.pc = Dispatch(d)])
    /\ UNCHANGED <<trades, position, orders, timers,
                   everSelected, lastRun, calc, conn,
                   positionTypes>>

\* Mutant: a per-symbol lock, a handler starts only when no other request
\* for its symbol is past the dispatch.
Routed_HoldsSymbolLock(r, action) ==
    /\ reqs[r].pc = "route" /\ reqs[r].action = action
    /\ \A q \in Reqs \ {r} :
          reqs[q].symbol = reqs[r].symbol => reqs[q].pc = "route"

Routed(r, action) == reqs[r].pc = "route" /\ reqs[r].action = action

\* ------------------------------------------------------- trading facade
\* BybitTrader.close_position: re-reads the position; flat (or a failed
\* query) is a success without order id and without price; otherwise the
\* close is sent, then the residual orders are cancelled and the price read.
\* Any exception, also one raised after the exchange accepted the close,
\* is reported as success = False with order_id None.
CloseAccepted(c) == c \in {"ok", "ok_noid", "cancel_raise"}

\* What each handler does with the close result (lines 150-154, 251-255,
\* 527-531): a reported failure ends FAILED; a success without "price" (the
\* facade found the symbol flat) raises KeyError while the trade row is
\* built, which the handler's own except turns into FAILED.
\* Mutant: the check of close_result["success"] is missing.
AfterClose_IgnoresFailure(rec) == [rec EXCEPT !.pc = "log_close"]

AfterClose(rec) ==
    IF rec.closeRes = "ok" THEN [rec EXCEPT !.pc = "log_close"]
    ELSE Finish([rec EXCEPT !.exc = @ \/ rec.closeRes = "flat"], "FAILED")

\* Mutant: the residual orders are cancelled before the close is sent, so
\* also when the close is then rejected.
close_position_CancelsFirst(r, q, c) ==
    LET s == reqs[r].symbol
        seen == get_current_position(s, q)
        rec0 == Call(reqs[r], <<"trader.close_position", "get_positions">>)
        id == Len(orders) + 1
    IN  IF seen = "none"
        THEN /\ c = "ok"
             /\ SetReq(r, AfterClose([rec0 EXCEPT !.closeRes = "flat"]))
             /\ UNCHANGED <<position, orders>>
        ELSE IF CloseAccepted(c)
        THEN /\ position' = [position EXCEPT ![s] = "none"]
             /\ orders' = Append(orders,
                    [id |-> id, symbol |-> s, kind |-> "close",
                     side |-> SideOf(seen)])
             /\ SetReq(r, AfterClose(
                  [Call(rec0, IF c = "cancel_raise"
                              THEN <<"cancel_all_orders">>
                              ELSE <<"cancel_all_orders", "close_position",
                                     "get_current_price">>)
                   EXCEPT !.closeRes = IF c = "cancel_raise" THEN "fail"
                                       ELSE "ok",
                          !.closeOrderId = IF c = "ok" THEN id
                                           ELSE NoOrderId]))
        ELSE /\ SetReq(r, AfterClose(
                  [Call(rec0, <<"cancel_all_orders", "close_position">>)
                   EXCEPT !.closeRes = "fail"]))
             /\ UNCHANGED <<position, orders>>

close_position(r, q, c) ==
    LET s == reqs[r].symbol
        seen == get_current_position(s, q)
        rec0 == Call(reqs[r], <<"trader.close_position", "get_positions">>)
        id == Len(orders) + 1
    IN  IF seen = "none"
        THEN /\ c = "ok"
             /\ SetReq(r, AfterClose([rec0 EXCEPT !.closeRes = "flat"]))
             /\ UNCHANGED <<position, orders>>
        ELSE IF CloseAccepted(c)
        THEN /\ position' = [position EXCEPT ![s] = "none"]
             /\ orders' = Append(orders,
                    [id |-> id, symbol |-> s, kind |-> "close",
                     side |-> SideOf(seen)])
             /\ SetReq(r, AfterClose(
                  [Call(rec0, IF c = "cancel_raise"
                              THEN <<"close_position", "cancel_all_orders">>
                              ELSE <<"close_position", "cancel_all_orders",
                                     "get_current_price">>)
                   EXCEPT !.closeRes = IF c = "cancel_raise" THEN "fail"
                                       ELSE "ok",
                          !.closeOrderId = IF c = "ok" THEN id
                                           ELSE NoOrderId]))
        ELSE /\ SetReq(r, AfterClose([Call(rec0, <<"close_position">>)
                                      EXCEPT !.closeRes = "fail"]))
             /\ UNCHANGED <<position, orders>>

trader_close_position(r) ==
    /\ reqs[r].pc = "close"
    /\ \E q \in QueryOutcomes, c \in CloseOutcomes :
        close_position(r, q, c) /\ Inject(Bad(q) + Bad(c))
    /\ UNCHANGED <<events, trades, timers, everSelected, lastRun, calc, conn,
                   positionTypes>>

\* The effect of an accepted market order on the live position (one-way
\* mode): it opens the side when flat, adds to a position of the same side
\* and nets off a position of the opposite side.
OrderEffect(cur, side) ==
    IF cur = "none" THEN side ELSE IF cur = side THEN cur ELSE "none"

\* Mutant: a failed open is FAILED also after a close.
OpenFailStatus_AlwaysFailed(cur) == "FAILED"

\* Line 188: the status of a failed open.
OpenFailStatus(cur) == IF cur = "none" THEN "FAILED" ELSE "PARTIAL"

\* Mutant: a failed open leaves the handler as an exception.
AfterOpen_Raises(rec) ==
    IF rec.openRes = "ok" THEN [rec EXCEPT !.pc = "record"]
    ELSE Returned(rec, "raised")

\* Lines 184-190: what _handle_open_position does with the open result.
AfterOpen(rec) ==
    IF rec.openRes = "ok" THEN [rec EXCEPT !.pc = "record"]
    ELSE Finish(rec, OpenFailStatus(rec.cur))

\* str.lower() on the strings of the model.
Lower(p) == IF p = "LONG" THEN "long" ELSE p

\* Mutant: the facade compares the position type as the orchestrator does.
FacadeSideOf_Exact(p) == IF p = "long" THEN "long" ELSE "short"

\* BybitTrader.open_position, line 71: Buy (a long position) when
\* position_type.lower() is "long", Sell (a short one) for anything else.
FacadeSideOf(p) == IF Lower(p) = "long" THEN "long" ELSE "short"

\* BybitTrader.open_position up to the settlement wait (lines 69-114).
place_order(r, o) ==
    LET s == reqs[r].symbol
        side == FacadeSideOf(reqs[r].position_type)
        id == Len(orders) + 1
        rec0 == Call(reqs[r], <<"trader.open_position", "get_current_price">>)
    IN  IF o = "price_raise"
        THEN /\ SetReq(r, AfterOpen([rec0 EXCEPT !.openRes = "fail"]))
             /\ UNCHANGED <<position, orders>>
        ELSE IF o = "rejected"
        THEN /\ SetReq(r, AfterOpen(
                  [Call(rec0, <<"set_leverage", "place_market_order">>)
                   EXCEPT !.openRes = "fail"]))
             /\ UNCHANGED <<position, orders>>
        ELSE /\ position' = [position EXCEPT ![s] = OrderEffect(@, side)]
             /\ orders' = Append(orders,
                    [id |-> id, symbol |-> s, kind |-> "open",
                     side |-> OpenSideOf(side)])
             /\ SetReq(r, [Call(rec0, <<"set_leverage", "place_market_order">>)
                           EXCEPT !.openOrderId = IF o = "accepted" THEN id
                                                  ELSE NoOrderId,
                                  !.pc = "confirm"])

trader_open_position_place(r) ==
    /\ reqs[r].pc = "place"
    /\ \E o \in PlaceOutcomes : place_order(r, o) /\ Inject(Bad(o))
    /\ UNCHANGED <<events, trades, timers, everSelected, lastRun, calc, conn,
                   positionTypes>>

\* BybitTrader.open_position after time.sleep(2) (lines 116-133): the
\* position is read again; None is "order accepted, position absent".
trader_open_position_confirm(r) ==
    /\ reqs[r].pc = "confirm"
    /\ \E q \in QueryOutcomes :
        /\ Inject(Bad(q))
        /\ LET seen == get_current_position(reqs[r].symbol, q)
               rec0 == Call(reqs[r], <<"get_positions">>)
           IN  SetReq(r, AfterOpen([rec0 EXCEPT
                    !.openRes = IF seen = "none" THEN "fail" ELSE "ok"]))
    /\ UNCHANGED <<events, trades, position, orders, timers,
                   everSelected, lastRun, calc, conn,
                   positionTypes>>

\* ------------------------------------------------------------ trade rows
\* Mutant: the closing row takes the side of the position it closes.
CloseTradeRow_SameSide(r, k, info) ==
    [tradeId |-> TradeIdOf(r, k), eventId |-> reqs[r].eventId,
     symbol |-> reqs[r].symbol, side |-> OpenSideOf(reqs[r].cur),
     positionType |-> reqs[r].cur, orderStatus |-> TRADE_STATUS_FILLED,
     quantity |-> "position.size", price |-> "close_result.price",
     bybitOrderId |-> reqs[r].closeOrderId, pnl |-> NoPnl,
     takeProfit |-> "NULL", stopLoss |-> "NULL",
     additionalInfo |-> info]

\* Lines 158-171, 264-277, 535-549: the row of a close.
CloseTradeRow(r, k, info) ==
    [tradeId |-> TradeIdOf(r, k), eventId |-> reqs[r].eventId,
     symbol |-> reqs[r].symbol, side |-> SideOf(reqs[r].cur),
     positionType |-> reqs[r].cur, orderStatus |-> TRADE_STATUS_FILLED,
     quantity |-> "position.size", price |-> "close_result.price",
     bybitOrderId |-> reqs[r].closeOrderId, pnl |-> NoPnl,
     takeProfit |-> "NULL", stopLoss |-> "NULL",
     additionalInfo |-> info]

\* Mutant: the row carries the computed TP/SL prices also when the
\* submission failed.
OpenTradeRow_TpSlAlways(r, k, t) ==
    [tradeId |-> TradeIdOf(r, k), eventId |-> reqs[r].eventId,
     symbol |-> reqs[r].symbol, side |-> OpenSideOf(reqs[r].position_type),
     positionType |-> reqs[r].position_type,
     orderStatus |-> TRADE_STATUS_OPEN,
     quantity |-> "qty", price |-> "position.entry_price",
     bybitOrderId |-> reqs[r].openOrderId, pnl |-> NoPnl,
     takeProfit |-> "tp_price", stopLoss |-> "sl_price",
     additionalInfo |-> {}]

\* Mutant: the opening row records the price read before the order instead
\* of the entry price of the confirmed position.
OpenTradeRow_PriceBeforeOrder(r, k, t) ==
    [tradeId |-> TradeIdOf(r, k), eventId |-> reqs[r].eventId,
     symbol |-> reqs[r].symbol, side |-> OpenSideOf(reqs[r].position_type),
     positionType |-> reqs[r].position_type,
     orderStatus |-> TRADE_STATUS_OPEN,
     quantity |-> "qty", price |-> "current_price",
     bybitOrderId |-> reqs[r].openOrderId, pnl |-> NoPnl,
     takeProfit |-> IF t = "ok" THEN "tp_price" ELSE "NULL",
     stopLoss |-> IF t = "ok" THEN "sl_price" ELSE "NULL",
     additionalInfo |-> {}]

\* Lines 204-219: the row of an open.
OpenTradeRow(r, k, t) ==
    [tradeId |-> TradeIdOf(r, k), eventId |-> reqs[r].eventId,
     symbol |-> reqs[r].symbol, side |-> OpenSideOf(reqs[r].position_type),
     positionType |-> reqs[r].position_type,
     orderStatus |-> TRADE_STATUS_OPEN,
     quantity |-> "qty", price |-> "position.entry_price",
     bybitOrderId |-> reqs[r].openOrderId, pnl |-> NoPnl,
     takeProfit |-> IF t = "ok" THEN "tp_price" ELSE "NULL",
     stopLoss |-> IF t = "ok" THEN "sl_price" ELSE "NULL",
     additionalInfo |-> {}]

\* ExecDBManager.log_trade: INSERT INTO trades; a database error is caught
\* and reported as False, a failed reconnect raises into the caller.
log_trade(tr, row, o) == IF o = "ok" THEN Append(tr, row) ELSE tr

\* Mutant: the UPDATE has no "orderStatus = OPEN" condition.
FlipMatches_AnyStatus(t, s, p) == t.symbol = s /\ t.positionType = p

\* UPDATE trades SET orderStatus = CLOSED WHERE symbol = s AND
\* positionType = p AND orderStatus = OPEN; an error is logged and ignored.
FlipMatches(t, s, p) ==
    t.symbol = s /\ t.positionType = p /\ t.orderStatus = TRADE_STATUS_OPEN

\* Mutant: the matching rows are marked FILLED instead of CLOSED.
update_trade_status_MarksFilled(tr, s, p, o) ==
    IF o = "ok"
    THEN [i \in 1..Len(tr) |->
            IF FlipMatches(tr[i], s, p)
            THEN [tr[i] EXCEPT !.orderStatus = TRADE_STATUS_FILLED]
            ELSE tr[i]]
    ELSE tr

update_trade_status(tr, s, p, o) ==
    IF o = "ok"
    THEN [i \in 1..Len(tr) |->
            IF FlipMatches(tr[i], s, p)
            THEN [tr[i] EXCEPT !.orderStatus = TRADE_STATUS_CLOSED]
            ELSE tr[i]]
    ELSE tr

\* -------------------------------------------- _handle_open_position
\* Mutant: the comparison of the sides is inverted.
AlreadyInPosition_Inverted(cur, position_type) ==
    cur # "none" /\ cur # position_type

\* Line 141.
AlreadyInPosition(cur, position_type) ==
    cur # "none" /\ cur = position_type

\* Lines 137-154: read the position, skip on the same side, otherwise
\* close an existing position first.
handle_open_position_read(r) ==
    /\ Routed(r, "open_position")
    /\ \E q \in QueryOutcomes :
        /\ Inject(Bad(q))
        /\ LET cur == get_current_position(reqs[r].symbol, q)
               rec == Call([reqs[r] EXCEPT !.cur = cur], <<"get_positions">>)
           IN  SetReq(r, IF AlreadyInPosition(cur, reqs[r].position_type)
                         THEN Finish(rec, "SKIPPED")
                         ELSE IF cur # "none" THEN [rec EXCEPT !.pc = "close"]
                         ELSE [rec EXCEPT !.pc = "place"])
    /\ UNCHANGED <<events, trades, position, orders, timers,
                   everSelected, lastRun, calc, conn,
                   positionTypes>>

\* Mutant: the flip-close is not recorded before the open.
handle_open_position_log_close_NoRow(r) ==
    /\ reqs[r].pc = "log_close" /\ reqs[r].action = "open_position"
    /\ SetReq(r, [reqs[r] EXCEPT !.pc = "flip"])
    /\ UNCHANGED <<events, trades, position, orders, timers,
                   everSelected, faults, lastRun, calc, conn,
                   positionTypes>>

\* Lines 156-171: the trade row of the flip-close.
handle_open_position_log_close(r) ==
    /\ reqs[r].pc = "log_close" /\ reqs[r].action = "open_position"
    /\ \E o \in DbOutcomes :
        /\ Inject(Bad(o))
        /\ trades' = log_trade(trades, CloseTradeRow(r, 1, {}), o)
        /\ SetReq(r, IF o = "raise"
                     THEN Finish([reqs[r] EXCEPT !.exc = TRUE,
                                                 !.dbFailed = TRUE], "FAILED")
                     ELSE [reqs[r] EXCEPT !.pc = "flip",
                                          !.dbFailed = @ \/ o # "ok"])
    /\ UNCHANGED <<events, position, orders, timers,
                   everSelected, lastRun, calc, conn,
                   positionTypes>>

\* Lines 173-181: mark the OPEN rows of the old side CLOSED, best effort.
handle_open_position_flip(r) ==
    /\ reqs[r].pc = "flip" /\ reqs[r].action = "open_position"
    /\ \E o \in QueryOutcomes :
        /\ Inject(Bad(o))
        /\ trades' = update_trade_status(trades, reqs[r].symbol,
                                         reqs[r].cur, o)
        /\ SetReq(r, [reqs[r] EXCEPT !.pc = "place",
                                     !.dbFailed = @ \/ o # "ok"])
    /\ UNCHANGED <<events, position, orders, timers,
                   everSelected, lastRun, calc, conn,
                   positionTypes>>

\* Lines 184-225: the open result, TP/SL (non-fatal) and the OPEN row.
handle_open_position_record(r) ==
    /\ reqs[r].pc = "record"
    /\ \E t \in TpSlOutcomes, o \in DbOutcomes :
        /\ Inject(Bad(t) + Bad(o))
        /\ trades' = log_trade(trades,
               OpenTradeRow(r, IF reqs[r].cur = "none" THEN 1 ELSE 2, t), o)
        /\ SetReq(r, Finish([Call(reqs[r], <<"set_tp_sl">>)
                             EXCEPT !.exc = @ \/ o = "raise",
                                    !.dbFailed = @ \/ o # "ok"],
                            IF o = "raise" THEN "FAILED" ELSE "SUCCESS"))
    /\ UNCHANGED <<events, position, orders, timers,
                   everSelected, lastRun, calc, conn,
                   positionTypes>>

\* ------------------------------------- _handle_close_position
\* Mutant: the check for a flat symbol is missing.
NoPosition_Never(cur) == FALSE

\* Lines 242 and 510: "if not current_position".
NoPosition(cur) == cur = "none"

\* threading.Timer(30.0, lambda: self._update_trade_pnl(trade_id, symbol,
\* close_result.get("order_id"))).start()
NewTimer(r, k) ==
    [tradeId |-> TradeIdOf(r, k), symbol |-> reqs[r].symbol,
     orderId |-> reqs[r].closeOrderId, fired |-> FALSE]

\* Lines 238-246.
handle_close_position_read(r) ==
    /\ Routed(r, "close_position")
    /\ \E q \in QueryOutcomes :
        /\ Inject(Bad(q))
        /\ LET cur == get_current_position(reqs[r].symbol, q)
               rec == Call([reqs[r] EXCEPT !.cur = cur], <<"get_positions">>)
           IN  SetReq(r, IF NoPosition(cur) THEN Finish(rec, "SKIPPED")
                         ELSE [rec EXCEPT !.pc = "close"])
    /\ UNCHANGED <<events, trades, position, orders, timers,
                   everSelected, lastRun, calc, conn,
                   positionTypes>>

\* Mutant: the delayed job is started before the insert of the row.
handle_close_position_log_close_TimerFirst(r) ==
    /\ reqs[r].pc = "log_close" /\ reqs[r].action = "close_position"
    /\ \E o \in DbOutcomes :
        /\ Inject(Bad(o))
        /\ trades' = log_trade(trades, CloseTradeRow(r, 1, {}), o)
        /\ timers' = timers \cup {NewTimer(r, 1)}
        /\ SetReq(r, IF o = "raise"
                     THEN Finish([reqs[r] EXCEPT !.exc = TRUE,
                                                 !.dbFailed = TRUE], "FAILED")
                     ELSE [reqs[r] EXCEPT !.pc = "flip",
                                          !.dbFailed = @ \/ o # "ok"])
    /\ UNCHANGED <<events, position, orders, everSelected, lastRun, calc, conn,
                   positionTypes>>

\* Lines 251-281: the FILLED row of the close, then the delayed job.
handle_close_position_log_close(r) ==
    /\ reqs[r].pc = "log_close" /\ reqs[r].action = "close_position"
    /\ \E o \in DbOutcomes :
        /\ Inject(Bad(o))
        /\ trades' = log_trade(trades, CloseTradeRow(r, 1, {}), o)
        /\ timers' = IF o = "raise" THEN timers
                     ELSE timers \cup {NewTimer(r, 1)}
        /\ SetReq(r, IF o = "raise"
                     THEN Finish([reqs[r] EXCEPT !.exc = TRUE,
                                                 !.dbFailed = TRUE], "FAILED")
                     ELSE [reqs[r] EXCEPT !.pc = "flip",
                                          !.dbFailed = @ \/ o # "ok"])
    /\ UNCHANGED <<events, position, orders, everSelected, lastRun, calc, conn,
                   positionTypes>>

\* Lines 283-297.
handle_close_position_flip(r) ==
    /\ reqs[r].pc = "flip" /\ reqs[r].action = "close_position"
    /\ \E o \in QueryOutcomes :
        /\ Inject(Bad(o))
        /\ trades' = update_trade_status(trades, reqs[r].symbol,
                                         reqs[r].cur, o)
        /\ SetReq(r, Finish([reqs[r] EXCEPT !.dbFailed = @ \/ o # "ok"],
                            "SUCCESS"))
    /\ UNCHANGED <<events, position, orders, timers,
                   everSelected, lastRun, calc, conn,
                   positionTypes>>

\* ------------------------------------------ _handle_trend_touch
\* Line 518: ai_decision.get("Answer", "").lower() != "yes".
Affirmative(answer) == answer = "yes"

\* Lines 517-518 raise AttributeError on such a payload; the handler's own
\* except (571-576) turns it into FAILED.
AnswerRaises(answer) == answer = "null"

\* Lines 506-522: flat, then the advisory decision.
handle_trend_touch_read(r) ==
    /\ Routed(r, "trend_touch")
    /\ \E q \in QueryOutcomes :
        /\ Inject(Bad(q))
        /\ LET cur == get_current_position(reqs[r].symbol, q)
               rec == Call([reqs[r] EXCEPT !.cur = cur], <<"get_positions">>)
           IN  SetReq(r, IF NoPosition(cur) THEN Finish(rec, "SKIPPED")
                         ELSE IF AnswerRaises(reqs[r].answer)
                         THEN Finish([rec EXCEPT !.exc = TRUE], "FAILED")
                         ELSE IF ~Affirmative(reqs[r].answer)
                         THEN Finish(rec, "SKIPPED")
                         ELSE [rec EXCEPT !.pc = "close"])
    /\ UNCHANGED <<events, trades, position, orders, timers,
                   everSelected, lastRun, calc, conn,
                   positionTypes>>

\* Lines 527-553.
handle_trend_touch_log_close(r) ==
    /\ reqs[r].pc = "log_close" /\ reqs[r].action = "trend_touch"
    /\ \E o \in DbOutcomes :
        /\ Inject(Bad(o))
        /\ trades' = log_trade(trades, CloseTradeRow(r, 1, {"reason", "ai_decision"}), o)
        /\ timers' = IF o = "raise" THEN timers
                     ELSE timers \cup {NewTimer(r, 1)}
        /\ SetReq(r, IF o = "raise"
                     THEN Finish([reqs[r] EXCEPT !.exc = TRUE,
                                                 !.dbFailed = TRUE], "FAILED")
                     ELSE [reqs[r] EXCEPT !.pc = "flip",
                                          !.dbFailed = @ \/ o # "ok"])
    /\ UNCHANGED <<events, position, orders, everSelected, lastRun, calc, conn,
                   positionTypes>>

\* Lines 555-569.
handle_trend_touch_flip(r) ==
    /\ reqs[r].pc = "flip" /\ reqs[r].action = "trend_touch"
    /\ \E o \in QueryOutcomes :
        /\ Inject(Bad(o))
        /\ trades' = update_trade_status(trades, reqs[r].symbol,
                                         reqs[r].cur, o)
        /\ SetReq(r, Finish([reqs[r] EXCEPT !.dbFailed = @ \/ o # "ok"],
                            "SUCCESS"))
    /\ UNCHANGED <<events, position, orders, timers,
                   everSelected, lastRun, calc, conn,
                   positionTypes>>

\* --------------------------------- the terminal update of the event row
\* handle_execution_request, lines 106-126: one UPDATE with the handler's
\* status; a raising update (failed reconnect) is caught at line 128.
update_event(r) ==
    /\ reqs[r].pc = "update"
    /\ \E o \in DbOutcomes :
        /\ Inject(Bad(o))
        /\ events' = update_execution_event(events, reqs[r].eventId,
                        reqs[r].status, reqs[r].status # "SUCCESS", TRUE, o)
        /\ LET rec == [reqs[r] EXCEPT
                        !.updates = @ + Applied(events, reqs[r].eventId, o),
                        !.updFailed = @ \/ o # "ok"]
           IN  SetReq(r, IF o = "raise"
                         THEN [rec EXCEPT !.pc = "error_final", !.exc = TRUE]
                         ELSE Returned(rec, "success"))
    /\ UNCHANGED <<trades, position, orders, timers,
                   everSelected, lastRun, calc, conn,
                   positionTypes>>

\* _handle_error, lines 578-594: FAILED with the message, no duration.
\* Called inside the try block for an unsupported symbol or action
\* ("error_try": a raising update is caught and _handle_error runs again)
\* and from the except clause ("error_final": a raising update leaves the
\* handler).
handle_error(r) ==
    /\ reqs[r].pc \in {"error_try", "error_final"}
    /\ \E o \in DbOutcomes :
        /\ Inject(Bad(o))
        /\ events' = update_execution_event(events, reqs[r].eventId,
                        "FAILED", TRUE, FALSE, o)
        /\ LET rec == [reqs[r] EXCEPT
                        !.updates = @ + Applied(events, reqs[r].eventId, o),
                        !.updFailed = @ \/ o # "ok"]
           IN  SetReq(r, IF o # "raise" THEN Returned(rec, "error")
                         ELSE IF rec.pc = "error_try"
                         THEN [rec EXCEPT !.pc = "error_final", !.exc = TRUE]
                         ELSE Returned(rec, "raised"))
    /\ UNCHANGED <<trades, position, orders, timers,
                   everSelected, lastRun, calc, conn,
                   positionTypes>>

\* ------------------------------------------------------- the exchange
ExchangeCloses ==
    Cardinality({i \in 1..Len(orders) : orders[i].kind = "exchange"})

\* A position closed on the exchange side (take profit, stop loss,
\* liquidation): the exchange records an order of its own.
exchange_closes_position(s) ==
    /\ position[s] # "none"
    /\ ExchangeCloses < MaxExchangeCloses
    /\ position' = [position EXCEPT ![s] = "none"]
    /\ orders' = Append(orders,
           [id |-> Len(orders) + 1, symbol |-> s, kind |-> "exchange",
            side |-> SideOf(position[s])])
    /\ UNCHANGED <<reqs, events, trades, timers, everSelected, faults, lastRun, calc, conn,
                   positionTypes>>

\* ------------------------------------------------- _update_trade_pnl
BulkCall == [tradeId |-> 0, symbol |-> "NULL", orderId |-> NoOrderId]

\* Line 329: "if trade_id and symbol and order_id".
SingleMode(job) == job.tradeId # 0 /\ job.orderId # NoOrderId

IndexSeq(n) == [i \in 1..n |-> i]

\* Mutant: the bulk selection has no "pnl IS NULL".
Selected_AnyFilled(tr, job) ==
    SelectSeq(IndexSeq(Len(tr)),
        LAMBDA i : IF SingleMode(job) THEN tr[i].tradeId = job.tradeId
                   ELSE tr[i].orderStatus = TRADE_STATUS_FILLED)

\* Lines 328-342: the rows of the run, in table order.
Selected(tr, job) ==
    SelectSeq(IndexSeq(Len(tr)),
        LAMBDA i : IF SingleMode(job) THEN tr[i].tradeId = job.tradeId
                   ELSE tr[i].orderStatus = TRADE_STATUS_FILLED
                        /\ tr[i].pnl = NoPnl)

Range(seq) == {seq[i] : i \in 1..Len(seq)}

FirstIndex(tr, sel, s) ==
    CHOOSE i \in Range(sel) :
        /\ tr[i].symbol = s
        /\ \A j \in Range(sel) : tr[j].symbol = s => i <= j

\* Lines 348-357: grouped by symbol, symbols in order of first appearance.
Plan(tr, sel) ==
    SortSeq(sel, LAMBDA i, j :
        \/ FirstIndex(tr, sel, tr[i].symbol) < FirstIndex(tr, sel, tr[j].symbol)
        \/ tr[i].symbol = tr[j].symbol /\ i < j)

\* The positions the exchange has closed: the closed-PnL records it can
\* report.  A query returns those already settled and among the 20 most
\* recent: any subset.
ClosingOrders ==
    {i \in 1..Len(orders) : orders[i].kind \in {"close", "exchange"}}

\* Lines 426-442: the list a symbol's query yields; a request error, a
\* non-200 answer, a non-zero retCode and missing credentials yield nothing
\* and skip the symbol, as does an empty list.
\* Mutant: one failed fetch leaves every symbol of the run without a list.
PnlList_AnyErrorEndsRun(s, fetch, avail) ==
    IF \A x \in SupportedSymbols : fetch[x] = "ok"
    THEN {id \in avail : orders[id].symbol = s} ELSE {}

PnlList(s, fetch, avail) ==
    IF fetch[s] = "ok" THEN {id \in avail : orders[id].symbol = s} ELSE {}

\* Lines 455-468: no order id, no match; otherwise the record whose orderId
\* equals the trade's bybitOrderId (the record stands for its closedPnl).
\* Mutant: the first record of the list is taken, whatever its order id.
matching_pnl_FirstRecord(list, order_id) ==
    IF list # {} THEN CHOOSE id \in list : TRUE ELSE NoPnl

matching_pnl(list, order_id) ==
    IF order_id # NoOrderId /\ order_id \in list THEN order_id ELSE NoPnl

\* Mutant: additionalInfo is overwritten with the two price keys.
WritePnl_Overwrites(t, rec) ==
    [t EXCEPT !.pnl = rec,
              !.additionalInfo = {"entry_price", "exit_price"}]

\* Lines 470-483: pnl and the two price keys merged into additionalInfo.
WritePnl(t, rec) ==
    [t EXCEPT !.pnl = rec,
              !.additionalInfo = @ \cup {"entry_price", "exit_price"}]

MatchOf(t, fetch, avail) ==
    matching_pnl(PnlList(t.symbol, fetch, avail), t.bybitOrderId)

\* The matched trades of a run, in processing order.
Matched(tr, job, fetch, avail) ==
    SelectSeq(Plan(tr, Selected(tr, job)),
              LAMBDA i : MatchOf(tr[i], fetch, avail) # NoPnl)

\* One run: the first n matched trades are updated; when n is less than
\* their number the next UPDATE raises, which the outer except (line 497)
\* turns into the end of the run.
update_trade_pnl(tr, job, fetch, avail, n) ==
    LET todo == Matched(tr, job, fetch, avail)
        done == {todo[k] : k \in 1..n}
    IN  [i \in 1..Len(tr) |->
            IF i \in done THEN WritePnl(tr[i], MatchOf(tr[i], fetch, avail))
            ELSE tr[i]]

SelectedIds(tr, job) ==
    IF SingleMode(job) THEN {}
    ELSE {tr[i].tradeId : i \in Range(Selected(tr, job))}

FetchOutcomes == [SupportedSymbols -> {"ok", "err"}]
FetchErrors(fetch) == Cardinality({s \in SupportedSymbols : fetch[s] = "err"})

\* Lines 348-357: only the symbols of the selected rows are queried.
PlannedSymbols(tr, job) == {tr[i].symbol : i \in Range(Selected(tr, job))}

\* The answers a run can get: a fetch outcome for each queried symbol and
\* the records listed by the queries that succeeded.
Answered(tr, job, fetch, avail) ==
    /\ \A s \in SupportedSymbols :
          fetch[s] = "err" => s \in PlannedSymbols(tr, job)
    /\ \A id \in avail :
          /\ orders[id].symbol \in PlannedSymbols(tr, job)
          /\ fetch[orders[id].symbol] = "ok"

RunKey(job) ==
    [tradeId |-> job.tradeId, symbol |-> job.symbol, orderId |-> job.orderId]

RunJob(job) ==
    \E fetch \in FetchOutcomes, avail \in SUBSET ClosingOrders :
        \E n \in 0..Len(Matched(trades, job, fetch, avail)) :
            /\ Answered(trades, job, fetch, avail)
            /\ Inject(FetchErrors(fetch)
                      + (IF n < Len(Matched(trades, job, fetch, avail))
                         THEN 1 ELSE 0))
            /\ trades' = update_trade_pnl(trades, job, fetch, avail, n)
            /\ everSelected' = everSelected \cup SelectedIds(trades, job)
            /\ lastRun' = IF PlannedSymbols(trades, job) = {} THEN lastRun
                           ELSE [tick |-> IF lastRun.tick = 1 THEN 2 ELSE 1,
                                 job |-> RunKey(job), fetch |-> fetch,
                                 avail |-> avail, n |-> n]

\* The delayed job of a close fires.
timer_fires(t) ==
    /\ t \in timers
    /\ ~t.fired
    /\ timers' = (timers \ {t}) \cup {[t EXCEPT !.fired = TRUE]}
    /\ RunJob(t)
    /\ UNCHANGED <<reqs, events, position, orders, calc, conn,
                   positionTypes>>

\* POST /update-pnl (exec_server.py 195-223): a bulk run.
update_pnl ==
    /\ RunJob(BulkCall)
    /\ UNCHANGED <<reqs, events, position, orders, timers, calc, conn,
                   positionTypes>>

\* ------------------------------------------------------------ the system
Next ==
    \/ \E r \in Reqs :
        \/ handle_execution_request(r)
        \/ handle_open_position_read(r)
        \/ trader_close_position(r)
        \/ handle_open_position_log_close(r)
        \/ handle_open_position_flip(r)
        \/ trader_open_position_place(r)
        \/ trader_open_position_confirm(r)
        \/ handle_open_position_record(r)
        \/ handle_close_position_read(r)
        \/ handle_close_position_log_close(r)
        \/ handle_close_position_flip(r)
        \/ handle_trend_touch_read(r)
        \/ handle_trend_touch_log_close(r)
        \/ handle_trend_touch_flip(r)
        \/ update_event(r)
        \/ handle_error(r)
    \/ \E s \in SupportedSymbols : exchange_closes_position(s)
    \/ \E t \in timers : timer_fires(t)
    \/ update_pnl

Spec == Init /\ [][Next]_vars
AnyTypeSpec == InitAnyType /\ [][Next]_vars

\* ------------------------------------------- reconciliation on its own
\* The server after MaxClosedTrades closes: each close left a FILLED row
\* without pnl (lines 264-277), with or without the order id of the close,
\* and a delayed job that has not fired yet or is gone; the requests have
\* returned.  Only the reconciliation runs from here.
ClosedRow(k, s, withId) ==
    [tradeId |-> k, eventId |-> FreshEventId(1), symbol |-> s,
     side |-> "Sell", positionType |-> "long",
     orderStatus |-> TRADE_STATUS_FILLED,
     quantity |-> "position.size", price |-> "close_result.price",
     bybitOrderId |-> IF withId THEN k ELSE NoOrderId, pnl |-> NoPnl,
     takeProfit |-> "NULL", stopLoss |-> "NULL",
     additionalInfo |-> {}]

ClosedTradeIds == 1..MaxClosedTrades

InitReconcile ==
    /\ reqs = [r \in Reqs |-> IdleRequest]
    /\ events = [e \in EventIds |-> AbsentEvent]
    /\ position = [s \in SupportedSymbols |-> "none"]
    /\ everSelected = {}
    /\ faults = 0
    /\ lastRun = NoRun
    /\ calc = NoCalc
    /\ conn = IdleConn
    /\ positionTypes = Sides
    /\ \E sym \in [ClosedTradeIds -> SupportedSymbols],
          withId \in [ClosedTradeIds -> BOOLEAN],
          pending \in SUBSET ClosedTradeIds :
        /\ trades = [k \in ClosedTradeIds |-> ClosedRow(k, sym[k], withId[k])]
        /\ orders = [k \in ClosedTradeIds |->
                        [id |-> k, symbol |-> sym[k], kind |-> "close",
                         side |-> "Sell"]]
        /\ timers = {[tradeId |-> k, symbol |-> sym[k],
                      orderId |-> trades[k].bybitOrderId, fired |-> FALSE] :
                        k \in pending}

NextReconcile ==
    \/ \E t \in timers : timer_fires(t)
    \/ update_pnl

ReconcileSpec == InitReconcile /\ [][NextReconcile]_vars

\* ------------------------------------------------------------ utils.py
Percents == {1, 100}
Leverages == {1, 5}
Prices == {100, 110}

\* calculate_quantity, lines 122-146: the body of the try block.  A zero
\* price (line 132) or a zero step size (line 135) raises ZeroDivisionError.
\* floor((balance * percent / 100 * leverage / price) / step) is the whole
\* quotient below.
TryQuantity(c) ==
    IF c.price = 0 \/ c.step_size = 0
    THEN [raised |-> TRUE, value |-> 0]
    ELSE LET steps == (c.balance * c.percent * c.leverage)
                          \div (100 * c.price * c.step_size)
             qty == steps * c.step_size
             atLeast == IF qty < c.min_qty THEN c.min_qty ELSE qty
         IN  [raised |-> FALSE,
              value |-> IF c.max_qty # NoMax /\ atLeast > c.max_qty
                        THEN c.max_qty ELSE atLeast]

\* Mutant: no except clause, the exception reaches the caller.
calculate_quantity_NoHandler(c) == TryQuantity(c)

\* Lines 121-150: an exception of the body is caught and min_qty returned.
calculate_quantity(c) ==
    IF TryQuantity(c).raised THEN [raised |-> FALSE, value |-> c.min_qty]
    ELSE TryQuantity(c)

\* Mutant: the position type is ignored, every position counts as long.
calculate_pnl_AlwaysLong(c) ==
    IF c.entry_price = 0
    THEN [raised |-> TRUE, value |-> 0]
    ELSE [raised |-> FALSE,
          value |-> (10 * c.size * c.entry_price
                        * ((c.exit_price - c.entry_price) * c.leverage))
                    \div c.entry_price]

\* calculate_pnl, lines 53-64: pnl_ratio = (exit - entry) / entry for long,
\* (entry - exit) / entry otherwise, times leverage; pnl = size * entry *
\* pnl_ratio, here in tenths.  A zero entry price raises (no try block).
calculate_pnl(c) ==
    IF c.entry_price = 0
    THEN [raised |-> TRUE, value |-> 0]
    ELSE LET diff == IF c.position_type = "long"
                     THEN c.exit_price - c.entry_price
                     ELSE c.entry_price - c.exit_price
         IN  [raised |-> FALSE,
              value |-> (10 * c.size * c.entry_price * (diff * c.leverage))
                        \div c.entry_price]

QuantityCalls ==
    {[NoCalc EXCEPT !.fn = "calculate_quantity", !.pc = "called",
                    !.balance = 100 * b, !.percent = pc, !.leverage = l,
                    !.price = p, !.min_qty = mn, !.step_size = st,
                    !.max_qty = mx] :
        b \in 1..MaxBalance, pc \in Percents, l \in Leverages,
        p \in 0..MaxPrice, mn \in 1..MaxQty, st \in 0..MaxQty,
        mx \in {NoMax} \cup 1..MaxQty}

PnlCalls ==
    {[NoCalc EXCEPT !.fn = "calculate_pnl", !.pc = "called",
                    !.entry_price = en, !.exit_price = ex,
                    !.position_type = pt, !.size = sz, !.leverage = l] :
        en \in Prices \cup {0}, ex \in Prices, pt \in Sides,
        sz \in 1..MaxQty, l \in Leverages}

\* The module is imported and one of its functions is called.
InitUtils ==
    /\ reqs = [r \in Reqs |-> IdleRequest]
    /\ events = [e \in EventIds |-> AbsentEvent]
    /\ trades = <<>>
    /\ position = [s \in SupportedSymbols |-> "none"]
    /\ orders = <<>>
    /\ timers = {}
    /\ everSelected = {}
    /\ faults = 0
    /\ lastRun = NoRun
    /\ calc \in QuantityCalls \cup PnlCalls
    /\ conn = IdleConn
    /\ positionTypes = Sides

Ended(c, res) ==
    [c EXCEPT !.pc = IF res.raised THEN "raised" ELSE "returned",
              !.out = res.value]

calculate_quantity_call ==
    /\ calc.pc = "called" /\ calc.fn = "calculate_quantity"
    /\ calc' = Ended(calc, calculate_quantity(calc))
    /\ UNCHANGED <<reqs, events, trades, position, orders, timers,
                   everSelected, faults, lastRun, conn,
                   positionTypes>>

calculate_pnl_call ==
    /\ calc.pc = "called" /\ calc.fn = "calculate_pnl"
    /\ calc' = Ended(calc, calculate_pnl(calc))
    /\ UNCHANGED <<reqs, events, trades, position, orders, timers,
                   everSelected, faults, lastRun, conn,
                   positionTypes>>

NextUtils == calculate_quantity_call \/ calculate_pnl_call

UtilsSpec == InitUtils /\ [][NextUtils]_vars

\* ------------------------------------------- the shared connection
\* The logical writes: the three of ExecDBManager (execute, commit, and
\* rollback in the except clause) and the two written inline in
\* exec_manager.py (execute, commit, no rollback in the except clause).
GatewayWrites == {"log_execution_event", "update_execution_event", "log_trade"}
InlineWrites == {"status_flip", "pnl_update"}
WriteKinds == GatewayWrites \cup InlineWrites

\* exec_db_manager.py 88, 126, 162: conn.rollback() discards whatever the
\* connection's transaction holds; the inline writes only log the error.
AfterError(c, h) ==
    [c EXCEPT !.pending = IF c.kind[h] \in GatewayWrites THEN {} ELSE @,
              !.pc[h] = "done", !.result[h] = "False"]

\* cursor.execute(query, values): the statement joins the transaction.
Execute(c, h, o) ==
    IF o = "ok" THEN [c EXCEPT !.pending = @ \cup {h}, !.pc[h] = "executed"]
    ELSE AfterError(c, h)

\* conn.commit(): everything the transaction holds becomes durable.
Commit(c, h, o) ==
    IF o = "ok"
    THEN [c EXCEPT !.durable = @ \cup c.pending, !.pending = {},
                   !.pc[h] = "done", !.result[h] = "True"]
    ELSE AfterError(c, h)

\* The server with MaxWriters threads (requests of the threaded Flask
\* server, exec_server.py 271, and timers) each about to do one write.
InitConnection ==
    /\ reqs = [r \in Reqs |-> IdleRequest]
    /\ events = [e \in EventIds |-> AbsentEvent]
    /\ trades = <<>>
    /\ position = [s \in SupportedSymbols |-> "none"]
    /\ orders = <<>>
    /\ timers = {}
    /\ everSelected = {}
    /\ faults = 0
    /\ lastRun = NoRun
    /\ calc = NoCalc
    /\ conn \in {[IdleConn EXCEPT !.kind = k,
                                  !.pc = [h \in Writers |-> "start"]] :
                    k \in [Writers -> WriteKinds]}
    /\ positionTypes = Sides

conn_execute(h) ==
    /\ conn.pc[h] = "start"
    /\ \E o \in QueryOutcomes : conn' = Execute(conn, h, o)
    /\ UNCHANGED <<reqs, events, trades, position, orders, timers,
                   everSelected, faults, lastRun, calc,
                   positionTypes>>

conn_commit(h) ==
    /\ conn.pc[h] = "executed"
    /\ \E o \in QueryOutcomes : conn' = Commit(conn, h, o)
    /\ UNCHANGED <<reqs, events, trades, position, orders, timers,
                   everSelected, faults, lastRun, calc,
                   positionTypes>>

NextConnection ==
    \E h \in Writers : conn_execute(h) \/ conn_commit(h)

ConnectionSpec == InitConnection /\ [][NextConnection]_vars

\* ================================================================ claims
MutatingCalls ==
    {"close_position", "set_leverage", "place_market_order",
     "cancel_all_orders", "set_tp_sl"}

Mutations(rec) == {i \in 1..Len(rec.calls) : rec.calls[i] \in MutatingCalls}

\* The trade rows and delayed jobs of request r (its generated trade ids).
OwnTradeIds(r) == {TradeIdOf(r, 1), TradeIdOf(r, 2)}
TradesOf(r) == {i \in 1..Len(trades) : trades[i].tradeId \in OwnTradeIds(r)}
TimersOf(r) == {t \in timers : t.tradeId \in OwnTradeIds(r)}

ReadSameSide(r) ==
    /\ reqs[r].action = "open_position"
    /\ reqs[r].cur \in Sides
    /\ reqs[r].cur = reqs[r].position_type

ReadOppositeSide(r) ==
    /\ reqs[r].action = "open_position"
    /\ reqs[r].cur \in Sides
    /\ reqs[r].cur # reqs[r].position_type

ReadFlatOnClose(r) ==
    /\ reqs[r].action \in {"close_position", "trend_touch"}
    /\ reqs[r].cur = "none"

\* C1: an OPEN request whose position read returns the requested side ends
\* SKIPPED, makes no exchange-mutating call and writes no Trade row.
C1_SameSideOpenSkipped ==
    \A r \in Reqs :
        ReadSameSide(r) =>
            /\ reqs[r].status = "SKIPPED"
            /\ Mutations(reqs[r]) = {}
            /\ ~Has(reqs[r].calls, "trader.close_position")
            /\ ~Has(reqs[r].calls, "trader.open_position")
            /\ TradesOf(r) = {}

C1_Witness ==
    \E r \in Reqs :
        ReadSameSide(r) /\ reqs[r].pc = "update" /\ reqs[r].status = "SKIPPED"

\* C2: an OPEN request whose position read returns the opposite side calls
\* closePosition before openPosition; when that close reports failure the
\* result is FAILED and openPosition is never called.
C2_FlipClosesBeforeOpen ==
    \A r \in Reqs :
        ReadOppositeSide(r) =>
            /\ reqs[r].pc # "close" => Has(reqs[r].calls, "trader.close_position")
            /\ \A i \in 1..Len(reqs[r].calls) :
                 reqs[r].calls[i] = "trader.open_position" =>
                    \E j \in 1..(i - 1) :
                        reqs[r].calls[j] = "trader.close_position"
            /\ reqs[r].closeRes = "fail" =>
                 /\ reqs[r].status = "FAILED"
                 /\ ~Has(reqs[r].calls, "trader.open_position")

C2_Witness ==
    \E r \in Reqs :
        /\ ReadOppositeSide(r)
        /\ reqs[r].closeRes = "fail"
        /\ Has(reqs[r].calls, "close_position")
        /\ reqs[r].status = "FAILED"

\* C3: when openPosition reports failure the result is PARTIAL if the
\* opposite-side position was closed first (that close succeeded) and
\* FAILED if no prior position was read.
C3_FailedOpenStatus ==
    \A r \in Reqs :
        reqs[r].openRes = "fail" =>
            /\ reqs[r].cur = "none" => reqs[r].status = "FAILED"
            /\ reqs[r].cur # "none" =>
                 reqs[r].closeRes = "ok" /\ reqs[r].status = "PARTIAL"

C3_Witness ==
    \E r \in Reqs :
        /\ reqs[r].openRes = "fail"
        /\ reqs[r].cur \in Sides
        /\ reqs[r].closeRes = "ok"
        /\ reqs[r].status = "PARTIAL"

\* C4: a CLOSE or TREND_TOUCH request whose position read returns no
\* position ends SKIPPED, sends no close order, writes no Trade row and
\* schedules no reconciliation job.
C4_FlatCloseSkipped ==
    \A r \in Reqs :
        ReadFlatOnClose(r) =>
            /\ reqs[r].status = "SKIPPED"
            /\ Mutations(reqs[r]) = {}
            /\ ~Has(reqs[r].calls, "trader.close_position")
            /\ TradesOf(r) = {}
            /\ TimersOf(r) = {}

C4_Witness ==
    \E r \in Reqs :
        /\ ReadFlatOnClose(r)
        /\ reqs[r].action = "trend_touch"
        /\ reqs[r].answer = "yes"
        /\ reqs[r].pc = "update"

Quiescent == \A r \in Reqs : reqs[r].pc \in {"idle", "done"}

C6_AtMostOneOpenTrade ==
    \A i, j \in 1..Len(trades) :
        (/\ trades[i].orderStatus = TRADE_STATUS_OPEN
         /\ trades[j].orderStatus = TRADE_STATUS_OPEN
         /\ trades[i].symbol = trades[j].symbol
         /\ trades[i].positionType = trades[j].positionType) => i = j

\* C7: reconciliation writes pnl to a trade only from an exchange record
\* whose orderId equals the trade's bybitOrderId; a trade with a null
\* bybitOrderId never receives a pnl, and once a bulk run has selected it,
\* every later bulk run selects it again.
C7_PnlOnlyByOrderId ==
    /\ \A i \in 1..Len(trades) :
        trades[i].pnl # NoPnl =>
            /\ trades[i].bybitOrderId # NoOrderId
            /\ trades[i].pnl = trades[i].bybitOrderId
            /\ trades[i].pnl \in ClosingOrders
    /\ \A i \in 1..Len(trades) :
        trades[i].bybitOrderId = NoOrderId =>
            /\ trades[i].pnl = NoPnl
            /\ trades[i].tradeId \in everSelected =>
                 i \in Range(Selected(trades, BulkCall))

C7_Witness ==
    \E i \in 1..Len(trades) :
        /\ trades[i].bybitOrderId = NoOrderId
        /\ trades[i].tradeId \in everSelected
        /\ trades[i].pnl = NoPnl
        /\ \E id \in ClosingOrders : orders[id].symbol = trades[i].symbol

\* C8 (as stated): no exchange mutation is made for a request that has no
\* event row.
C8_NoMutationWithoutEventRow ==
    \A r \in Reqs :
        Mutations(reqs[r]) # {} => RowExists(events, reqs[r].eventId)

UniqueEventId(r) ==
    \A q \in Reqs \ {r} : reqs[q].eventId # reqs[r].eventId

\* C8 (amended): the INSERT of the event row is attempted before the first
\* exchange call of the request; when it succeeds the row exists at every
\* exchange call, and it is PENDING until the request's own update unless
\* another request carries the same eventId.
C8_InsertAttemptedBeforeExchange ==
    \A r \in Reqs :
        reqs[r].calls # <<>> =>
            /\ reqs[r].insert \in {"ok", "fail"}
            /\ reqs[r].insert = "ok" =>
                 /\ RowExists(events, reqs[r].eventId)
                 /\ UniqueEventId(r) =>
                      events[reqs[r].eventId].execStatus = "PENDING"

C8_Witness ==
    \E r \in Reqs :
        /\ reqs[r].insert = "ok"
        /\ Mutations(reqs[r]) # {}
        /\ events[reqs[r].eventId].execStatus = "PENDING"

\* C9: once an event row carries a terminal status no later request
\* changes that status.
C9_TerminalStatusImmutable ==
    [][\A id \in EventIds :
          events[id].execStatus \in TerminalStatus =>
              events'[id].execStatus = events[id].execStatus]_vars

\* The orders this service submitted and the exchange accepted.
AcceptedOrders ==
    {i \in 1..Len(orders) : orders[i].kind \in {"open", "close"}}

\* C10: when no request is in flight the trades table holds exactly one
\* row per accepted order of the service.
C10_OneTradePerAcceptedOrder ==
    Quiescent => Len(trades) = Cardinality(AcceptedOrders)

\* C11: a failed persistence write never changes the result status the
\* exchange outcome gives and never stops the remaining exchange steps: an
\* OPEN whose position materialized ends SUCCESS, a close that succeeded
\* ends SUCCESS, and a flip whose close succeeded still attempts the open.
C11_WriteFailureKeepsOutcome ==
    \A r \in Reqs :
        reqs[r].pc = "update" =>
            /\ (reqs[r].action = "open_position" /\ reqs[r].openRes = "ok")
                 => reqs[r].status = "SUCCESS"
            /\ (reqs[r].action \in {"close_position", "trend_touch"}
                  /\ reqs[r].closeRes = "ok") => reqs[r].status = "SUCCESS"
            /\ (reqs[r].action = "open_position" /\ reqs[r].closeRes = "ok")
                 => Has(reqs[r].calls, "trader.open_position")

\* Request r returns in this step.
Returns(r) == reqs[r].pc # "done" /\ reqs'[r].pc = "done"

FailedWithMessage(row) ==
    row.execStatus = "FAILED" /\ row.errorMessage = "set"

Rejected(r) == reqs[r].pc \in {"error_try", "error_final"}

\* C13: a request with an unsupported symbol is rejected before any event
\* row is logged, a request with an unsupported action after its row was
\* logged, and neither makes an exchange call.
C13_SymbolRejectedBeforeLogging ==
    \A r \in Reqs :
        (Rejected(r) /\ ~reqs[r].exc) =>
            /\ reqs[r].calls = <<>>
            /\ reqs[r].symbol \notin SupportedSymbols =>
                 /\ reqs[r].insert = "none"
                 /\ ~RowExists(events, reqs[r].eventId)
            /\ reqs[r].symbol \in SupportedSymbols =>
                 /\ reqs[r].action = "cancel_orders"
                 /\ reqs[r].insert \in {"ok", "fail"}

\* C14: a TREND_TOUCH request whose advisory decision is anything other
\* than the affirmative value ends SKIPPED, sends no close order, writes no
\* Trade row and schedules no reconciliation job.
C14_NonAffirmativeSkipped ==
    \A r \in Reqs :
        (/\ reqs[r].action = "trend_touch"
         /\ reqs[r].cur # "unread"
         /\ ~Affirmative(reqs[r].answer)) =>
            /\ reqs[r].status = "SKIPPED"
            /\ Mutations(reqs[r]) = {}
            /\ ~Has(reqs[r].calls, "trader.close_position")
            /\ TradesOf(r) = {}
            /\ TimersOf(r) = {}

\* The Trade row a step appends, if it appends one.
Appends == Len(trades') = Len(trades) + 1
NewRow == trades'[Len(trades')]

OwnRowsAfter(r) ==
    {i \in 1..Len(trades') : trades'[i].tradeId \in OwnTradeIds(r)}

\* The handler of request r produces its result in this step.
Resolves(r) == reqs[r].pc # "update" /\ reqs'[r].pc = "update"

ConfirmedOpenOnFlat(r) ==
    /\ reqs[r].action = "open_position"
    /\ reqs[r].cur = "none"
    /\ reqs[r].openRes = "ok"

OpenRowAsClaimed(row, r) ==
    /\ row.tradeId \in OwnTradeIds(r)
    /\ row.orderStatus = TRADE_STATUS_OPEN
    /\ row.positionType = reqs[r].position_type
    /\ row.side = (IF reqs[r].position_type = "long" THEN "Buy" ELSE "Sell")
    /\ row.price = "position.entry_price"
    /\ row.quantity = "qty"
    /\ row.bybitOrderId = reqs[r].openOrderId

\* C15 (as stated): an OPEN request on a flat symbol whose open the
\* exchange confirmed ends SUCCESS and writes exactly one Trade row: OPEN,
\* the requested side, Buy for long and Sell for short, the confirmed entry
\* price, the order quantity and the order id the exchange returned.
C15_ConfirmedOpenRecorded ==
    [][\A r \in Reqs :
          (Resolves(r) /\ ConfirmedOpenOnFlat(r)) =>
              /\ reqs'[r].status = "SUCCESS"
              /\ Appends
              /\ Cardinality(OwnRowsAfter(r)) = 1
              /\ OpenRowAsClaimed(NewRow, r)]_vars

\* C15 (amended): such a request writes at most one Trade row; when the
\* insert of the row is applied it ends SUCCESS with exactly the row
\* claimed; when the insert fails with a caught error it ends SUCCESS
\* without a row, and when the insert raises it ends FAILED without a row.
C15_ConfirmedOpenRecordedIfInserted ==
    [][\A r \in Reqs :
          (Resolves(r) /\ ConfirmedOpenOnFlat(r)) =>
              /\ ~reqs'[r].dbFailed =>
                   /\ reqs'[r].status = "SUCCESS"
                   /\ Appends
                   /\ Cardinality(OwnRowsAfter(r)) = 1
                   /\ OpenRowAsClaimed(NewRow, r)
              /\ reqs'[r].dbFailed =>
                   /\ trades' = trades
                   /\ OwnRowsAfter(r) = {}
                   /\ reqs'[r].status =
                        (IF reqs'[r].exc THEN "FAILED" ELSE "SUCCESS")]_vars

C15_Witness ==
    \E r \in Reqs :
        /\ reqs[r].pc = "update"
        /\ ConfirmedOpenOnFlat(r)
        /\ ~reqs[r].dbFailed
        /\ reqs[r].status = "SUCCESS"
        /\ reqs[r].openOrderId # NoOrderId
        /\ \E i \in TradesOf(r) : OpenRowAsClaimed(trades[i], r)

SucceededClose(r) ==
    reqs[r].action = "close_position" /\ reqs[r].closeRes = "ok"

CloseRowAsClaimed(row, r) ==
    /\ row.tradeId \in OwnTradeIds(r)
    /\ row.orderStatus = TRADE_STATUS_FILLED
    /\ row.side = (IF reqs[r].cur = "long" THEN "Sell" ELSE "Buy")
    /\ row.price = "close_result.price"

\* The OPEN rows of (symbol, held side) before the step are CLOSED after it.
OpenRowsFlipped(r) ==
    \A i \in 1..Len(trades) :
        FlipMatches(trades[i], reqs[r].symbol, reqs[r].cur) =>
            trades'[i].orderStatus = TRADE_STATUS_CLOSED

\* C16 (as stated): a CLOSE request on a symbol with a live position whose
\* close succeeds ends SUCCESS, writes a FILLED Trade row with the side
\* opposite to the held position and the reported close price, turns every
\* OPEN row of (symbol, held side) CLOSED and schedules a reconciliation
\* job for the new trade.
C16_SuccessfulCloseRecorded ==
    [][\A r \in Reqs :
          (Resolves(r) /\ SucceededClose(r)) =>
              /\ reqs'[r].status = "SUCCESS"
              /\ \E i \in OwnRowsAfter(r) :
                    /\ CloseRowAsClaimed(trades'[i], r)
                    /\ \E t \in timers' : t.tradeId = trades'[i].tradeId
              /\ OpenRowsFlipped(r)]_vars

\* C16 (amended): when the insert of the row and the status UPDATE are
\* applied, such a request ends SUCCESS with the FILLED row claimed, the
\* OPEN rows of (symbol, held side) CLOSED and a job scheduled for the new
\* trade; it ends FAILED only when the insert raised, and then without a
\* row and without a job.
C16_SuccessfulCloseRecordedIfWritten ==
    [][\A r \in Reqs :
          (Resolves(r) /\ SucceededClose(r)) =>
              /\ ~reqs'[r].dbFailed =>
                   /\ reqs'[r].status = "SUCCESS"
                   /\ \E i \in OwnRowsAfter(r) :
                         /\ CloseRowAsClaimed(trades'[i], r)
                         /\ \E t \in timers' : t.tradeId = trades'[i].tradeId
                   /\ OpenRowsFlipped(r)
              /\ reqs'[r].status =
                   (IF reqs'[r].exc THEN "FAILED" ELSE "SUCCESS")
              /\ reqs'[r].exc =>
                   /\ OwnRowsAfter(r) = {}
                   /\ {t \in timers' : t.tradeId \in OwnTradeIds(r)} = {}]_vars

C16_Witness ==
    \E r \in Reqs :
        /\ reqs[r].pc = "update"
        /\ SucceededClose(r)
        /\ ~reqs[r].dbFailed
        /\ reqs[r].status = "SUCCESS"
        /\ \E i \in TradesOf(r) : CloseRowAsClaimed(trades[i], r)
        /\ TimersOf(r) # {}
        /\ \E i \in 1..Len(trades) :
              /\ trades[i].orderStatus = TRADE_STATUS_CLOSED
              /\ trades[i].symbol = reqs[r].symbol
              /\ trades[i].positionType = reqs[r].cur

\* The step of an OPEN request that writes the row of the flip-close.
FlipCloseLogged(r) ==
    /\ reqs[r].action = "open_position"
    /\ reqs[r].pc = "log_close"
    /\ Appends
    /\ NewRow.tradeId \in OwnTradeIds(r)

\* The step of an OPEN request that runs the status UPDATE of the flip.
FlipUpdateRuns(r) ==
    /\ reqs[r].action = "open_position"
    /\ reqs[r].pc = "flip"
    /\ reqs'[r].pc # "flip"

\* C17 (as stated): in a flip, the Trade row written for the old position
\* has orderStatus CLOSED, and every prior OPEN row of (symbol, old side) is
\* marked CLOSED.
C17_FlipCloseRowClosed ==
    [][\A r \in Reqs :
          /\ FlipCloseLogged(r) => NewRow.orderStatus = TRADE_STATUS_CLOSED
          /\ FlipUpdateRuns(r) => OpenRowsFlipped(r)]_vars

\* C17 (amended): in a flip, the Trade row written for the old position has
\* orderStatus FILLED, the old side as positionType and the opposite order
\* side; when the status UPDATE is applied every prior OPEN row of
\* (symbol, old side) is marked CLOSED and no other row changes, and when
\* it fails no row changes and the request goes on to the new open.
C17_FlipCloseRowFilled ==
    [][\A r \in Reqs :
          /\ FlipCloseLogged(r) =>
                /\ NewRow.orderStatus = TRADE_STATUS_FILLED
                /\ NewRow.positionType = reqs[r].cur
                /\ NewRow.side = (IF reqs[r].cur = "long" THEN "Sell"
                                                          ELSE "Buy")
                /\ reqs'[r].pc = "flip"
          /\ FlipUpdateRuns(r) =>
                /\ reqs'[r].pc = "place"
                /\ faults' = faults =>
                      /\ OpenRowsFlipped(r)
                      /\ \A i \in 1..Len(trades) :
                            ~FlipMatches(trades[i], reqs[r].symbol,
                                         reqs[r].cur) =>
                                trades'[i] = trades[i]
                /\ faults' # faults => trades' = trades]_vars

C17_Witness ==
    \E r \in Reqs :
        /\ ReadOppositeSide(r)
        /\ reqs[r].pc = "place"
        /\ \E i \in TradesOf(r) :
              trades[i].orderStatus = TRADE_STATUS_FILLED
        /\ \E j \in 1..Len(trades) :
              /\ trades[j].orderStatus = TRADE_STATUS_CLOSED
              /\ trades[j].symbol = reqs[r].symbol
              /\ trades[j].positionType = reqs[r].cur

\* The delayed jobs started for the trade of a row.
JobsFor(row) == {t \in timers : t.tradeId = row.tradeId}

\* C18: exactly one delayed reconciliation job is started for every closing
\* trade that is recorded, whether the close belongs to a CLOSE request, to
\* a TREND_TOUCH request or to the flip inside an OPEN request.
C18_JobForEveryClosingTrade ==
    \A i \in 1..Len(trades) :
        trades[i].orderStatus = TRADE_STATUS_FILLED =>
            Cardinality(JobsFor(trades[i])) = 1

\* A step in which a run of _update_trade_pnl queried the exchange.
RunEnds == lastRun'.tick # lastRun.tick

\* The rows the run selected, and what the exchange answered for a row.
Candidates == Range(Selected(trades, lastRun'.job))
FetchFailed(i) == lastRun'.fetch[trades[i].symbol] = "err"
Listed(i) ==
    /\ trades[i].bybitOrderId # NoOrderId
    /\ trades[i].bybitOrderId \in lastRun'.avail
\* An UPDATE of the run raised: a failure beyond the failed fetches.
UpdateRaised == faults' - faults > FetchErrors(lastRun'.fetch)

\* C19: in a run, a symbol whose closed-PnL data cannot be fetched is
\* skipped and the run goes on: unless an UPDATE raises, every candidate
\* of another symbol whose record the exchange listed gets its pnl, and the
\* rows of the failed symbol are left as they were.
C19_FetchFailureSkipsSymbolOnly ==
    [][RunEnds =>
          \A i \in Candidates :
              /\ (~UpdateRaised /\ ~FetchFailed(i) /\ Listed(i)) =>
                     trades'[i].pnl = trades[i].bybitOrderId
              /\ FetchFailed(i) => trades'[i] = trades[i]]_vars

\* A run met a failed fetch for a symbol with a candidate and still wrote
\* the pnl of a candidate of another symbol.
C19_Witness ==
    /\ lastRun.tick # 0
    /\ lastRun.n >= 1
    /\ \E i, j \in 1..Len(trades) :
          /\ lastRun.fetch[trades[i].symbol] = "err"
          /\ trades[i].orderStatus = TRADE_STATUS_FILLED
          /\ trades[i].pnl = NoPnl
          /\ lastRun.fetch[trades[j].symbol] = "ok"
          /\ trades[j].pnl # NoPnl
          /\ trades[j].pnl = trades[j].bybitOrderId

\* C20: in a run, an UPDATE that raises costs only its own trade: every
\* other candidate whose record the exchange listed still gets its pnl.
C20_UpdateFailureSkipsTradeOnly ==
    [][(RunEnds /\ UpdateRaised) =>
          Cardinality({i \in Candidates :
                          /\ ~FetchFailed(i)
                          /\ Listed(i)
                          /\ trades'[i].pnl # trades[i].bybitOrderId}) <= 1]_vars

\* The rows the run executed its UPDATE on.
WrittenInRun ==
    LET todo == Matched(trades, lastRun'.job, lastRun'.fetch, lastRun'.avail)
    IN  {todo[k] : k \in 1..lastRun'.n}

\* C21: a run of the reconciliation, single or bulk, executes no UPDATE on
\* a trade whose pnl is already set and leaves that row as it was.
C21_ReconciledTradeNotRewritten ==
    [][RunEnds =>
          \A i \in 1..Len(trades) :
              trades[i].pnl # NoPnl =>
                  /\ i \notin WrittenInRun
                  /\ trades'[i] = trades[i]]_vars

\* The step in which the terminal UPDATE of request r is applied to an
\* event row that no terminal UPDATE has touched before.
FirstTerminalUpdate(r) ==
    /\ reqs'[r].updates = reqs[r].updates + 1
    /\ events[reqs[r].eventId].execStatus = "PENDING"

\* C22: every terminal update of an event row, on the normal path and on
\* the error paths, writes the status, the execution time and the execution
\* duration, and writes the error message exactly when the status is not
\* SUCCESS.
C22_TerminalUpdateComplete ==
    [][\A r \in Reqs :
          FirstTerminalUpdate(r) =>
              LET row == events'[reqs[r].eventId]
              IN  /\ row.execStatus \in TerminalStatus
                  /\ row.executionTime
                  /\ row.executionDuration
                  /\ row.errorMessage = "set" <=> row.execStatus # "SUCCESS"]_vars

QuantityReturned ==
    calc.fn = "calculate_quantity" /\ calc.pc \in {"returned", "raised"}

PositiveQuantityInputs ==
    /\ calc.balance > 0 /\ calc.percent > 0 /\ calc.leverage > 0
    /\ calc.price > 0 /\ calc.min_qty > 0 /\ calc.step_size > 0
    /\ calc.max_qty # NoMax => calc.max_qty >= calc.min_qty

\* C23: for positive inputs (and max_qty >= min_qty when given) the
\* quantity calculate_quantity returns is a whole multiple of step_size and
\* lies between min_qty and max_qty.
C23_QuantityOnStepWithinLimits ==
    (QuantityReturned /\ PositiveQuantityInputs) =>
        /\ calc.pc = "returned"
        /\ calc.out % calc.step_size = 0
        /\ calc.out >= calc.min_qty
        /\ calc.max_qty # NoMax => calc.out <= calc.max_qty

ArithmeticFailure == calc.price = 0 \/ calc.step_size = 0

\* C24: calculate_quantity never raises into its caller; with a zero price
\* or a zero step size it returns min_qty.
C24_QuantityNeverRaises ==
    QuantityReturned =>
        /\ calc.pc = "returned"
        /\ ArithmeticFailure => calc.out = calc.min_qty

C24_Witness ==
    /\ QuantityReturned
    /\ calc.pc = "returned"
    /\ calc.price = 0
    /\ calc.step_size > 0
    /\ calc.out = calc.min_qty

PnlReturned == calc.fn = "calculate_pnl" /\ calc.pc = "returned"

SpecExample ==
    /\ calc.entry_price = 100 /\ calc.exit_price = 110
    /\ calc.size = 1 /\ calc.leverage = 5

OtherSide(c) ==
    [c EXCEPT !.position_type = IF @ = "long" THEN "short" ELSE "long"]

\* C25 (as stated): calculate_pnl(100, 110, long, 1, 5) is 0.5 (5 tenths),
\* with short it is -0.5, and the short result is the negation of the long
\* result for the same other arguments.
C25_PnlExampleHalf ==
    PnlReturned =>
        /\ SpecExample =>
              calc.out = (IF calc.position_type = "long" THEN 5 ELSE -5)
        /\ calc.out = -calculate_pnl(OtherSide(calc)).value

\* C25 (amended): calculate_pnl(100, 110, long, 1, 5) is 50 (500 tenths),
\* with short it is -50, and the short result is the negation of the long
\* result for the same other arguments.
C25_PnlExampleFifty ==
    PnlReturned =>
        /\ SpecExample =>
              calc.out = (IF calc.position_type = "long" THEN 500 ELSE -500)
        /\ calc.out = -calculate_pnl(OtherSide(calc)).value

C25_Witness ==
    /\ PnlReturned
    /\ SpecExample
    /\ calc.position_type = "short"
    /\ calc.out = -500

\* The step is taken by thread h of the shared connection.
StepOf(h) == conn'.pc[h] # conn.pc[h]

\* C26: on the shared connection every logical write is its own atomic
\* unit: a step of one handler makes durable no statement of another
\* handler and discards none, and a write reported as successful is
\* durable.
C26_EachWriteItsOwnUnit ==
    [][\A h \in Writers :
          StepOf(h) =>
              /\ (conn'.durable \ conn.durable) \subseteq {h}
              /\ (conn.pending \ conn'.pending) \subseteq {h}
              /\ conn'.result[h] = "True" => h \in conn'.durable]_vars

\* The request has read the position and has not yet submitted its order.
BetweenReadAndSubmit(r) ==
    reqs[r].cur # "unread" /\ reqs[r].pc \in {"close", "place"}

\* C27: no lock covers read position, decide, mutate: a request routed to
\* a handler can read the position whatever the other requests are doing,
\* also while another request for the same symbol stands between its own
\* read and its order, and an OPEN that read a flat symbol can submit its
\* order whatever the others have done since.
C27_NoLockAroundPositionRead ==
    \A r \in Reqs :
        /\ (reqs[r].action = "open_position" /\ reqs[r].pc = "route") =>
              ENABLED handle_open_position_read(r)
        /\ (reqs[r].action = "open_position" /\ reqs[r].pc = "place") =>
              ENABLED trader_open_position_place(r)

\* Two same-side OPEN requests on a flat symbol both read it flat before
\* either order, both orders were accepted and both OPEN rows are written.
C27_Witness ==
    \E r, q \in Reqs :
        /\ r # q
        /\ \A x \in {r, q} :
              /\ reqs[x].action = "open_position"
              /\ reqs[x].cur = "none"
              /\ reqs[x].openOrderId # NoOrderId
              /\ reqs[x].status = "SUCCESS"
              /\ Has(reqs[x].calls, "set_tp_sl")
        /\ reqs[r].symbol = reqs[q].symbol
        /\ reqs[r].position_type = reqs[q].position_type
        /\ Cardinality({i \in 1..Len(trades) :
               /\ trades[i].orderStatus = TRADE_STATUS_OPEN
               /\ trades[i].symbol = reqs[r].symbol
               /\ trades[i].positionType = reqs[r].position_type
               /\ trades[i].bybitOrderId
                     \in {reqs[r].openOrderId, reqs[q].openOrderId}}) = 2
        /\ Len(orders) = 2
        /\ faults = 0

\* The two rows of a flip: the close of the held side, the open of the
\* requested side.
FlipCloseRow(row, r) ==
    /\ row.tradeId = TradeIdOf(r, 1)
    /\ row.eventId = reqs[r].eventId
    /\ row.orderStatus = TRADE_STATUS_FILLED
    /\ row.positionType = reqs[r].cur

FlipOpenRow(row, r) ==
    /\ row.tradeId = TradeIdOf(r, 2)
    /\ row.eventId = reqs[r].eventId
    /\ row.orderStatus = TRADE_STATUS_OPEN
    /\ row.positionType = reqs[r].position_type

\* The flip of request r ends with the given status in this step.
FlipEnds(r, status) ==
    Resolves(r) /\ ReadOppositeSide(r) /\ reqs'[r].status = status

\* The handler of request r calls BybitTrader.open_position in this step.
CallsOpen(r) ==
    /\ ~Has(reqs[r].calls, "trader.open_position")
    /\ Has(reqs'[r].calls, "trader.open_position")

\* C28 (as stated): a flip that ends SUCCESS has written exactly two Trade
\* rows of its event, the close of the old side and then the open of the
\* new side, the close row before openPosition is called; a flip that ends
\* PARTIAL leaves exactly one row, the close, and no OPEN row.
C28_FlipWritesCloseThenOpen ==
    [][\A r \in Reqs :
          /\ FlipEnds(r, "SUCCESS") =>
                /\ Cardinality(OwnRowsAfter(r)) = 2
                /\ Appends /\ FlipOpenRow(NewRow, r)
                /\ \E i \in TradesOf(r) : FlipCloseRow(trades[i], r)
          /\ FlipEnds(r, "PARTIAL") =>
                /\ Cardinality(OwnRowsAfter(r)) = 1
                /\ \A i \in OwnRowsAfter(r) : FlipCloseRow(trades'[i], r)
          /\ (CallsOpen(r) /\ ReadOppositeSide(r)) =>
                \E i \in TradesOf(r) : FlipCloseRow(trades[i], r)]_vars

\* C28 (amended): a flip that ends SUCCESS has written at most two rows,
\* and one that ends PARTIAL at most one; each row is the close of the old
\* side or (SUCCESS only) the open of the new side, the close row is never
\* written after openPosition is called, and the counts are exactly two
\* and one, in the order close then open, when no persistence write of the
\* handler failed.
C28_FlipWritesCloseThenOpenIfWritten ==
    [][\A r \in Reqs :
          /\ FlipEnds(r, "SUCCESS") =>
                /\ Cardinality(OwnRowsAfter(r)) <= 2
                /\ \A i \in OwnRowsAfter(r) :
                      \/ FlipCloseRow(trades'[i], r) /\ i <= Len(trades)
                      \/ FlipOpenRow(trades'[i], r) /\ i = Len(trades')
                /\ ~reqs'[r].dbFailed =>
                      /\ Cardinality(OwnRowsAfter(r)) = 2
                      /\ Appends /\ FlipOpenRow(NewRow, r)
                      /\ \E i \in TradesOf(r) : FlipCloseRow(trades[i], r)
          /\ FlipEnds(r, "PARTIAL") =>
                /\ trades' = trades
                /\ Cardinality(OwnRowsAfter(r)) <= 1
                /\ \A i \in OwnRowsAfter(r) : FlipCloseRow(trades'[i], r)
                /\ ~reqs'[r].dbFailed => Cardinality(OwnRowsAfter(r)) = 1
          /\ (CallsOpen(r) /\ ReadOppositeSide(r)) =>
                /\ trades' = trades
                /\ \A i \in TradesOf(r) : FlipCloseRow(trades[i], r)
                /\ ~reqs[r].dbFailed =>
                      \E i \in TradesOf(r) : FlipCloseRow(trades[i], r)]_vars

\* A flip has ended SUCCESS with both rows, the close row first.
C28_Witness ==
    \E r \in Reqs :
        /\ reqs[r].pc = "update"
        /\ ReadOppositeSide(r)
        /\ reqs[r].status = "SUCCESS"
        /\ ~reqs[r].dbFailed
        /\ \E i, j \in TradesOf(r) :
              /\ i < j
              /\ FlipCloseRow(trades[i], r)
              /\ FlipOpenRow(trades[j], r)

\* The rows with orderStatus FILLED and a null pnl.
Eligible(tr) ==
    {i \in 1..Len(tr) :
        tr[i].orderStatus = TRADE_STATUS_FILLED /\ tr[i].pnl = NoPnl}

BulkRunEnds == RunEnds /\ lastRun'.job = RunKey(BulkCall)

\* The exchange result of the run holds no record with the trade's order id.
NoEqualRecord(t, run) ==
    \/ t.bybitOrderId = NoOrderId
    \/ t.bybitOrderId \notin PnlList(t.symbol, run.fetch, run.avail)

PriceKeys == {"entry_price", "exit_price"}

\* C30: the update of a matched trade writes pnl and sets the entry_price
\* and exit_price keys of additionalInfo; the keys already present stay,
\* no other key appears, every other column of the row, orderStatus
\* included, is unchanged, and the run changes no other row.
C30_PnlUpdateMergesPriceKeys ==
    [][RunEnds =>
          /\ Len(trades') = Len(trades)
          /\ \A i \in 1..Len(trades) :
                IF i \in WrittenInRun
                THEN /\ trades'[i].pnl # NoPnl
                     /\ trades'[i].additionalInfo
                           = trades[i].additionalInfo \cup PriceKeys
                     /\ trades'[i].orderStatus = trades[i].orderStatus
                     /\ [trades'[i] EXCEPT !.pnl = NoPnl,
                                           !.additionalInfo = {}]
                           = [trades[i] EXCEPT !.pnl = NoPnl,
                                               !.additionalInfo = {}]
                ELSE trades'[i] = trades[i]]_vars

\* A reconciled TREND_TOUCH trade: pnl written, the reason and the
\* advisory payload kept beside the two price keys, still FILLED.
C30_Witness ==
    \E i \in 1..Len(trades) :
        /\ trades[i].pnl # NoPnl
        /\ trades[i].pnl = trades[i].bybitOrderId
        /\ trades[i].orderStatus = TRADE_STATUS_FILLED
        /\ trades[i].additionalInfo
              = {"reason", "ai_decision"} \cup PriceKeys
        /\ lastRun.n > 0

\* The handler of request r runs the TP/SL submission and the insert of
\* the OPEN row in this step; the step counts the failures of the two.
RecordsOpen(r) == reqs[r].pc = "record" /\ reqs'[r].pc # "record"
TpSlFailedHere == Appends /\ faults' > faults
TpSlSucceededHere == faults' = faults

OpenRowOf(row, r) ==
    /\ row.tradeId \in OwnTradeIds(r)
    /\ row.orderStatus = TRADE_STATUS_OPEN
    /\ row.positionType = reqs[r].position_type

\* C31 (as stated): after a successful open the request ends SUCCESS and
\* writes the OPEN Trade row whether the TP/SL submission fails or not;
\* takeProfit and stopLoss are both null when it failed and both the
\* computed prices when it succeeded.
C31_TpSlFailureNotFatal ==
    [][\A r \in Reqs :
          RecordsOpen(r) =>
              /\ reqs'[r].status = "SUCCESS"
              /\ Appends /\ OpenRowOf(NewRow, r)
              /\ TpSlFailedHere =>
                    NewRow.takeProfit = "NULL" /\ NewRow.stopLoss = "NULL"
              /\ TpSlSucceededHere =>
                    /\ NewRow.takeProfit = "tp_price"
                    /\ NewRow.stopLoss = "sl_price"]_vars

\* C31 (amended): the TP/SL result changes neither the status nor whether
\* the row is written: the request ends SUCCESS unless the insert of the
\* row raises (then FAILED), the OPEN row is written exactly when the
\* insert is applied, with takeProfit and stopLoss both null after a failed
\* submission and both the computed prices after a successful one.
C31_TpSlFailureNotFatalIfInserted ==
    [][\A r \in Reqs :
          RecordsOpen(r) =>
              /\ reqs'[r].status =
                    (IF reqs'[r].exc THEN "FAILED" ELSE "SUCCESS")
              /\ Appends \/ trades' = trades
              /\ ~reqs'[r].dbFailed => Appends
              /\ ~Appends => reqs'[r].dbFailed
              /\ Appends =>
                    /\ OpenRowOf(NewRow, r)
                    /\ reqs'[r].status = "SUCCESS"
                    /\ (NewRow.takeProfit = "NULL")
                          <=> (NewRow.stopLoss = "NULL")
                    /\ TpSlFailedHere => NewRow.takeProfit = "NULL"
                    /\ TpSlSucceededHere =>
                          /\ NewRow.takeProfit = "tp_price"
                          /\ NewRow.stopLoss = "sl_price"]_vars

\* The TP/SL submission failed after a confirmed open: the request ended
\* SUCCESS and its OPEN row has neither price.
C31_Witness ==
    \E r \in Reqs :
        /\ reqs[r].pc = "update"
        /\ reqs[r].openRes = "ok"
        /\ reqs[r].status = "SUCCESS"
        /\ Has(reqs[r].calls, "set_tp_sl")
        /\ faults = 1
        /\ \E i \in TradesOf(r) :
              /\ OpenRowOf(trades[i], r)
              /\ trades[i].takeProfit = "NULL"
              /\ trades[i].stopLoss = "NULL"

\* The handler of request r reads the live position in this step and the
\* query fails.
PositionQueryFails(r) ==
    /\ reqs[r].cur = "unread" /\ reqs'[r].cur # "unread"
    /\ faults' > faults

\* C32: a failed position query is read as flat: an OPEN request goes on to
\* the open without a close, a CLOSE or TREND_TOUCH request ends SKIPPED
\* without a close order, whatever position the exchange holds; and no
\* OPEN request that read the symbol flat ever attempts a close.
C32_FailedQueryReadAsFlat ==
    /\ [][\A r \in Reqs :
            PositionQueryFails(r) =>
                /\ reqs'[r].cur = "none"
                /\ position' = position /\ orders' = orders
                /\ ~Has(reqs'[r].calls, "trader.close_position")
                /\ IF reqs[r].action = "open_position"
                   THEN reqs'[r].pc = "place"
                   ELSE /\ reqs'[r].pc = "update"
                        /\ reqs'[r].status = "SKIPPED"]_vars
    /\ [](\A r \in Reqs :
            (reqs[r].action = "open_position" /\ reqs[r].cur = "none") =>
                /\ ~Has(reqs[r].calls, "trader.close_position")
                /\ reqs[r].closeRes = "none")

\* A CLOSE or TREND_TOUCH request whose position query failed has ended
\* SKIPPED without a close order while the exchange holds a position.
C32_Witness ==
    \E r \in Reqs :
        /\ reqs[r].action \in {"close_position", "trend_touch"}
        /\ reqs[r].pc = "update"
        /\ reqs[r].cur = "none"
        /\ reqs[r].status = "SKIPPED"
        /\ position[reqs[r].symbol] # "none"
        /\ ~Has(reqs[r].calls, "trader.close_position")
        /\ faults = 1
        /\ \A i \in 1..Len(orders) : orders[i].kind = "open"

\* BybitTrader.close_position runs for request r in this step.
FacadeCloses(r) == reqs[r].pc = "close" /\ reqs'[r].pc # "close"

CloseSent(r) == Has(reqs'[r].calls, "close_position")
CancelSent(r) == Has(reqs'[r].calls, "cancel_all_orders")
CloseOrderAccepted == Len(orders') = Len(orders) + 1
FacadeSuccess(r) == reqs'[r].closeRes \in {"flat", "ok"}

\* In the calls of the record, every a comes before every b.
Precedes(calls, a, b) ==
    \A i, j \in 1..Len(calls) : (calls[i] = a /\ calls[j] = b) => i < j

\* The order of close and cancel, whatever the facade read.
CancelOnlyAfterAcceptedClose(r) ==
    /\ CancelSent(r) => CloseSent(r) /\ CloseOrderAccepted
    /\ Precedes(reqs'[r].calls, "close_position", "cancel_all_orders")
    /\ (CloseSent(r) /\ ~CloseOrderAccepted) =>
          ~FacadeSuccess(r) /\ ~CancelSent(r)
    /\ ~CloseSent(r) => orders' = orders /\ position' = position

\* C33 (as stated): closePosition on a flat symbol returns success without
\* a close order or a cancel request; on a symbol with a position it sends
\* the close, and it cancels the residual orders only after the close was
\* accepted (a rejected close returns failure and cancels nothing).
C33_CloseThenCancel ==
    [][\A r \in Reqs :
          FacadeCloses(r) =>
              /\ position[reqs[r].symbol] = "none" =>
                    FacadeSuccess(r) /\ ~CloseSent(r) /\ ~CancelSent(r)
              /\ position[reqs[r].symbol] # "none" => CloseSent(r)
              /\ CancelOnlyAfterAcceptedClose(r)]_vars

\* C33 (amended): flat and with a position are what the facade's own
\* position read returns, and a failed read returns no position: without
\* a position read, success without a close order or a cancel request;
\* with one, the close is sent, and the cancel only after it was accepted.
C33_CloseThenCancelAsRead ==
    [][\A r \in Reqs :
          FacadeCloses(r) =>
              /\ position[reqs[r].symbol] = "none" =>
                    FacadeSuccess(r) /\ ~CloseSent(r) /\ ~CancelSent(r)
              /\ ~CloseSent(r) =>
                    /\ reqs'[r].closeRes = "flat" /\ ~CancelSent(r)
                    /\ position[reqs[r].symbol] = "none"
                          \/ faults' > faults
              /\ (position[reqs[r].symbol] # "none" /\ faults' = faults) =>
                    /\ CloseSent(r) /\ CloseOrderAccepted
                    /\ CancelSent(r) /\ reqs'[r].closeRes = "ok"
              /\ CancelOnlyAfterAcceptedClose(r)]_vars

\* A close was accepted and the residual orders were cancelled after it.
C33_Witness ==
    \E r \in Reqs :
        /\ reqs[r].closeRes = "ok"
        /\ Has(reqs[r].calls, "close_position")
        /\ Has(reqs[r].calls, "cancel_all_orders")
        /\ Precedes(reqs[r].calls, "close_position", "cancel_all_orders")
        /\ \E i \in 1..Len(orders) :
              orders[i].kind = "close" /\ orders[i].id = reqs[r].closeOrderId
        /\ position[reqs[r].symbol] = "none"

\* The handler of request r makes exchange calls in this step and one of
\* them fails or raises.
ExchangeCallFails(r) ==
    /\ reqs[r].pc \in {"route", "close", "place", "confirm"}
    /\ reqs'[r] # reqs[r]
    /\ faults' > faults

\* C34: a failure or exception of an exchange call during OPEN, CLOSE or
\* TREND_TOUCH handling leaves the handler running or ends it with a
\* result (FAILED or PARTIAL, or SKIPPED for a position query read as
\* flat), never with an exception; an exception that leaves
\* handle_execution_request was raised by a write to the event row.
C34_ExchangeFailureIsAResult ==
    /\ [][\A r \in Reqs :
            ExchangeCallFails(r) =>
                /\ reqs'[r].resp = "none"
                /\ reqs'[r].pc \notin {"done", "error_try", "error_final"}
                /\ reqs'[r].pc = "update" =>
                      /\ reqs'[r].status \in {"FAILED", "PARTIAL", "SKIPPED"}
                      /\ reqs'[r].status = "SKIPPED" =>
                            reqs[r].pc = "route"]_vars
    /\ [](\A r \in Reqs :
            reqs[r].resp = "raised" =>
                reqs[r].insert = "raise" \/ reqs[r].updFailed)

\* A close that the exchange call failed has become the result FAILED of
\* a handler that goes on to the event update.
C34_Witness ==
    \E r \in Reqs :
        /\ reqs[r].pc = "update"
        /\ reqs[r].closeRes = "fail"
        /\ Has(reqs[r].calls, "close_position")
        /\ reqs[r].status = "FAILED"
        /\ ~reqs[r].exc
        /\ reqs[r].resp = "none"
        /\ faults = 1

\* The exchange accepted the close that the OPEN request r sent for the
\* position of the opposite side.
FlipCloseAccepted(r) ==
    /\ reqs[r].action = "open_position"
    /\ Has(reqs[r].calls, "cancel_all_orders")

\* C35: an OPEN request whose close of the old position was accepted by
\* the exchange never has the result FAILED: its result is SUCCESS or
\* PARTIAL whatever happens after the close.
C35_AcceptedCloseNeverFailed ==
    \A r \in Reqs :
        (FlipCloseAccepted(r) /\ reqs[r].pc = "update") =>
            reqs[r].status \in {"SUCCESS", "PARTIAL"}

\* C36: an OPEN request opens only the side it names and records it as
\* submitted: the side of its order equals the side on its OPEN Trade row,
\* the order is a Buy for long and a Sell for short, and a position_type
\* other than long or short never makes it submit an order or close a
\* position.
C36_OpenOnlyTheNamedSide ==
    \A r \in Reqs :
        reqs[r].action = "open_position" =>
            /\ reqs[r].position_type \notin Sides =>
                  /\ ~Has(reqs[r].calls, "place_market_order")
                  /\ ~Has(reqs[r].calls, "close_position")
            /\ reqs[r].openOrderId # NoOrderId =>
                  /\ orders[reqs[r].openOrderId].side
                        = (IF reqs[r].position_type = "long" THEN "Buy"
                           ELSE "Sell")
                  /\ \A i \in TradesOf(r) :
                        trades[i].orderStatus = TRADE_STATUS_OPEN =>
                            trades[i].side
                              = orders[reqs[r].openOrderId].side

\* The delayed job t runs in this step.
JobRuns(t) ==
    /\ t \in timers /\ ~t.fired
    /\ timers' = (timers \ {t}) \cup {[t EXCEPT !.fired = TRUE]}

\* C37: the job scheduled by a CLOSE or TREND_TOUCH request selects and
\* updates only the Trade row of that request: every other row is
\* unchanged by its run and no row enters a bulk selection, also when the
\* close returned no order id.
C37_JobTouchesOnlyItsTrade ==
    [][\A t \in timers :
          JobRuns(t) =>
              /\ \A i \in 1..Len(trades) :
                    trades[i].tradeId # t.tradeId => trades'[i] = trades[i]
              /\ everSelected' = everSelected]_vars

\* C38: every Trade row carries the eventId of an existing ExecutionEvent
\* row, and once that event has a terminal status the status is SUCCESS or
\* PARTIAL.
C38_TradeBelongsToSucceededEvent ==
    \A i \in 1..Len(trades) :
        /\ RowExists(events, trades[i].eventId)
        /\ events[trades[i].eventId].execStatus \in TerminalStatus =>
              events[trades[i].eventId].execStatus \in {"SUCCESS", "PARTIAL"}

ClosingRequest(r) == reqs[r].action \in {"close_position", "trend_touch"}

TimersAfter(r) == {t \in timers' : t.tradeId \in OwnTradeIds(r)}
FiredJobs(ts) == {t.tradeId : t \in {u \in ts : u.fired}}

\* C39: a CLOSE or TREND_TOUCH request has scheduled a reconciliation job
\* exactly when its result is SUCCESS; the job is scheduled in the step
\* that attempts the insert of the close row and only when the insert did
\* not raise; no step of the handler runs a job, and the handler can
\* return while its job has not run.
C39_JobScheduledIffSuccess ==
    /\ [](\A r \in Reqs :
            (ClosingRequest(r) /\ reqs[r].pc = "update") =>
                /\ (TimersOf(r) # {}) <=> (reqs[r].status = "SUCCESS")
                /\ ENABLED update_event(r))
    /\ [][\A r \in Reqs :
            /\ TimersAfter(r) # TimersOf(r) /\ FiredJobs(timers') = FiredJobs(timers)
                  => /\ ClosingRequest(r) /\ reqs[r].pc = "log_close"
                     /\ TimersOf(r) = {}
                     /\ \A t \in TimersAfter(r) :
                           /\ t.tradeId = TradeIdOf(r, 1) /\ ~t.fired
                           /\ \/ Appends /\ NewRow.tradeId = t.tradeId
                              \/ trades' = trades /\ reqs'[r].dbFailed
                                   /\ ~reqs'[r].exc
            /\ reqs'[r] # reqs[r] =>
                  FiredJobs(timers') = FiredJobs(timers)]_vars

\* A CLOSE or TREND_TOUCH request has returned its SUCCESS result and its
\* job has not run yet.
C39_Witness ==
    \E r \in Reqs :
        /\ reqs[r].pc = "done"
        /\ reqs[r].resp = "success"
        /\ reqs[r].status = "SUCCESS"
        /\ \E t \in TimersOf(r) : ~t.fired
        /\ \E i \in TradesOf(r) :
              trades[i].orderStatus = TRADE_STATUS_FILLED

\* The rows whose orderStatus changes in this step.
StatusChanged ==
    {i \in 1..Len(trades) : trades'[i].orderStatus # trades[i].orderStatus}

OpenRowsOf(sym, side) ==
    {i \in 1..Len(trades) :
        /\ trades[i].symbol = sym
        /\ trades[i].positionType = side
        /\ trades[i].orderStatus = TRADE_STATUS_OPEN}

====
